---- MODULE Spec2Model ----
(***************************************************************************)
(* Case state machine of the SoW document-assembly workflow engine         *)
(* (backend/services/sow_workflow_service.py, class SOWWorkflowService).   *)
(*                                                                         *)
(* Python values are modelled as tagged records so that values of          *)
(* different Python types can be compared: None, str, list, number.        *)
(* Lists whose order is never read (service names) are modelled as sets.   *)
(* Timestamps (created_at) are not modelled: no property reads them.       *)
(***************************************************************************)
EXTENDS Integers, Sequences, FiniteSets, TLC

VARIABLES
    cases,      \* SOWWorkflowService._cases : case_id -> SOWCase
    last        \* the most recent call on the service and its outcome

vars == <<cases, last>>

(***************************************************************************)
(* Bounds                                                                  *)
(***************************************************************************)
MaxReruns == 1       \* re-runs of stage handlers per case

\* ids uuid4() hands out
CaseIds == {"case-1"}

(***************************************************************************)
(* Python values                                                           *)
(***************************************************************************)
NoneV == [t |-> "none"]
Str(s) == [t |-> "str", v |-> s]
Lst(s) == [t |-> "list", v |-> s]
Num(n) == [t |-> "num", v |-> n]
\* a str whose words are read (section prose): the sequence of its words
Text(words) == [t |-> "text", v |-> words]

\* Python truthiness of a value (bool(x))
Truthy(x) ==
    CASE x.t = "none" -> FALSE
      [] x.t = "str"  -> x.v # ""
      [] x.t = "text" -> x.v # << >>
      [] x.t = "list" -> x.v # {}
      [] x.t = "num"  -> x.v # 0

\* Python "a or b"
Or2(a, b) == IF Truthy(a) THEN a ELSE b

\* Python "a or b or c"
Or3(a, b, c) == Or2(a, Or2(b, c))

\* dict.get(k, default) on a dict modelled as a function
Get(d, k, default) == IF k \in DOMAIN d THEN d[k] ELSE default

\* the dict with no keys
EmptyDict == [k \in {} |-> NoneV]

(***************************************************************************)
(* WorkflowStage                                                           *)
(***************************************************************************)
StageOrder ==
    << "INIT", "EXTRACTED", "PLAN_READY", "RETRIEVED", "RERANKED",
       "ASSEMBLED", "DRAFTED", "VALIDATED", "REVIEWED", "APPROVED" >>

WorkflowStage == { StageOrder[i] : i \in 1..Len(StageOrder) }

\* position of a stage in the declared order
StageRank(s) == CHOOSE i \in 1..Len(StageOrder) : StageOrder[i] = s

(***************************************************************************)
(* Intake records and completion-service responses                         *)
(***************************************************************************)
RequiredIntakeFields ==
    {"client_name", "project_scope", "document_type", "industry", "region"}

\* keys of the extracted context that _extract_structured_context also
\* looks up in the intake
OptionalIntakeFields ==
    {"deployment_model", "architecture_pattern", "data_isolation_model",
     "cloud_provider", "ai_services_used", "data_flow_direction",
     "regulatory_context"}

IntakeFields == RequiredIntakeFields \cup OptionalIntakeFields

\* intake.get(k) of a key that is not in the dict is None
ValidIntake ==
    [k \in IntakeFields |->
        CASE k = "client_name"   -> Str("Acme")
          [] k = "project_scope" -> Str("migration")
          [] k = "document_type" -> Str("SOW")
          [] k = "industry"      -> Str("finance")
          [] k = "region"        -> Str("eu")
          [] OTHER               -> NoneV]

\* intakes in which one required field is missing (None) or empty ("")
InvalidIntakes ==
    { [ValidIntake EXCEPT ![k] = bad] :
        k \in RequiredIntakeFields, bad \in {NoneV, Str("")} }

Intakes == {ValidIntake} \cup InvalidIntakes

\* key "structured_context" not (yet) in the intake dict
NoCtx == [t |-> "absent"]

ContextFields ==
    {"deployment_model", "architecture_pattern", "data_isolation_model",
     "cloud_provider", "ai_services_used", "data_flow_direction",
     "regulatory_context", "industry", "region", "allowed_services"}

\* JSON objects the completion service returns for the extraction prompt.
\* ObjFull follows the requested schema (keys it leaves out are null)
ObjFull ==
    [ architecture_pattern |-> Str("hub-spoke"),
      cloud_provider       |-> Str("OCI"),
      ai_services_used     |-> Lst({"OCI Vision"}),
      allowed_services     |-> Lst({"OCI Vision"}) ]

\* objects that parse as JSON but break the requested schema
ObjBadProvider == [cloud_provider |-> Num(5)]
ObjBadServices == [ai_services_used |-> Num(7)]

\* what llm_service.generate_text_content can do: raise (error, timeout),
\* return text that is not a JSON object, or return a JSON object
LlmRaise == [kind |-> "raise", obj |-> EmptyDict]
LlmUnparseable == [kind |-> "unparseable", obj |-> EmptyDict]
LlmObject(obj) == [kind |-> "object", obj |-> obj]

ExtractResponses ==
    { LlmRaise, LlmUnparseable, LlmObject(ObjFull),
      LlmObject(ObjBadProvider), LlmObject(ObjBadServices) }

\* _parse_json_object: {} unless the text holds a JSON object; a call that
\* raised leaves parsed = {} as well
_parse_json_object(resp) ==
    IF resp.kind = "object" THEN resp.obj ELSE EmptyDict

\* provider strings that contain "oci" once lower-cased
OciProviders == {"OCI", "oci"}

BaselineOciServices ==
    {"OCI AI Services", "OCI Data Science", "Object Storage", "API Gateway",
     "Functions"}

\* exception raised by _derive_allowed_services, "none" if it returns:
\* set(ai_services) needs an iterable, (cloud_provider or "").lower() a str
_derive_allowed_services_error(ai_services, cloud_provider) ==
    IF Truthy(ai_services) /\ ai_services.t = "num" THEN "TypeError"
    ELSE IF Truthy(cloud_provider) /\ cloud_provider.t # "str"
         THEN "AttributeError"
         ELSE "none"

_derive_allowed_services(ai_services, cloud_provider) ==
    LET mapped == IF Truthy(ai_services) THEN ai_services.v ELSE {}
        provider == IF Truthy(cloud_provider) THEN cloud_provider.v ELSE ""
    IN  Lst(IF provider \in OciProviders
            THEN mapped \cup BaselineOciServices
            ELSE mapped)

\* ai_services / cloud_provider as computed at lines 552-553
ExtractAiServices(intake, parsed) ==
    Or3(Get(parsed, "ai_services_used", NoneV), intake["ai_services_used"],
        Lst({}))

ExtractCloudProvider(intake, parsed) ==
    Or3(Get(parsed, "cloud_provider", NoneV), intake["cloud_provider"],
        Str("OCI"))

\* exception that escapes _extract_structured_context, "none" if it returns:
\* the completion call is inside try/except, the derivation of
\* allowed_services is not
_extract_structured_context_error(intake, resp) ==
    LET parsed == _parse_json_object(resp)
    IN  IF Truthy(Get(parsed, "allowed_services", NoneV))
        THEN "none"
        ELSE _derive_allowed_services_error(
                 ExtractAiServices(intake, parsed),
                 ExtractCloudProvider(intake, parsed))

_extract_structured_context(intake, resp) ==
    LET parsed == _parse_json_object(resp)
        ai_services == ExtractAiServices(intake, parsed)
        cloud_provider == ExtractCloudProvider(intake, parsed)
        allowed_services ==
            IF Truthy(Get(parsed, "allowed_services", NoneV))
            THEN parsed["allowed_services"]
            ELSE _derive_allowed_services(ai_services, cloud_provider)
    IN  [k \in ContextFields |->
            CASE k = "cloud_provider"     -> cloud_provider
              [] k = "ai_services_used"   -> ai_services
              [] k = "allowed_services"   -> allowed_services
              [] k = "regulatory_context" ->
                     Or3(Get(parsed, k, NoneV), intake[k], Lst({}))
              [] OTHER -> Or2(Get(parsed, k, NoneV), intake[k])]


(***************************************************************************)
(* Plan input and section definitions                                      *)
(***************************************************************************)
RETRIEVAL_FILTER_FIELDS ==
    {"section", "clause_type", "tags", "risk_level", "industry", "region",
     "deployment_model", "architecture_pattern", "service_family",
     "compliance_scope"}

\* output schemas: field names in dict order, each with its default value
SchemaOf(keys, defaults) == [keys |-> keys, defaults |-> defaults]

DEFAULT_SECTION_SCHEMAS ==
    [ clause |->
        SchemaOf(<<"section_summary", "obligations", "constraints",
                   "limitations">>,
                 [section_summary |-> Text(<< >>), obligations |-> Lst({}),
                  constraints |-> Lst({}), limitations |-> Lst({})]),
      technical |->
        SchemaOf(<<"overview", "architecture_pattern", "core_components",
                   "data_flow", "security_model", "multi_tenancy_model",
                   "limitations">>,
                 [overview |-> Text(<< >>), architecture_pattern |-> Text(<< >>),
                  core_components |-> Lst({}), data_flow |-> Text(<< >>),
                  security_model |-> Text(<< >>),
                  multi_tenancy_model |-> Text(<< >>),
                  limitations |-> Text(<< >>)]),
      template |->
        SchemaOf(<<"content">>, [content |-> Text(<< >>)]) ]

SectionCategories == {"template", "clause", "technical"}

DefaultRelaxationOrder == <<"tags", "industry", "region", "risk_level">>

\* FallbackPolicy(min_clauses, relaxation_order, max_retries) from a dict
FallbackPolicy(fallback) ==
    [ min_clauses      |-> Get(fallback, "min_clauses", 3),
      relaxation_order |-> Get(fallback, "relaxation_order",
                               DefaultRelaxationOrder),
      max_retries      |-> Get(fallback, "max_retries", 3) ]

\* "{{ intake.key }}" and "{{ structured.key }}" filter values are
\* modelled as values tagged intake_ref / structured_ref
IntakeRef(key) == [t |-> "intake_ref", v |-> key]
StructuredRef(key) == [t |-> "structured_ref", v |-> key]

_resolve_template_value(value, intake, extracted) ==
    CASE value.t = "intake_ref"     -> Get(intake, value.v, NoneV)
      [] value.t = "structured_ref" -> Get(extracted, value.v, NoneV)
      [] OTHER                      -> value

_resolve_structured_filters(filters, intake, extracted) ==
    LET resolved == [key \in DOMAIN filters |->
                        _resolve_template_value(filters[key], intake,
                                                extracted)]
        kept == { key \in DOMAIN filters :
                    /\ key \in RETRIEVAL_FILTER_FIELDS
                    /\ Truthy(resolved[key]) }
    IN  [key \in kept |-> resolved[key]]

\* TRUE when the raw section passes the checks of run_plan's loop
\* (name and intent present, category one of the three)
ValidRawSection(raw) ==
    /\ Get(raw, "name", "") # ""
    /\ Get(raw, "intent", "") # ""
    /\ Get(raw, "category", "clause") \in SectionCategories

_normalize_section_definition(raw, intake, extracted) ==
    LET category == Get(raw, "category", "clause")
        output_schema == Get(raw, "output_schema",
                             DEFAULT_SECTION_SCHEMAS[category])
        required == Get(raw, "required_fields", << >>)
    IN  [ name            |-> raw.name,
          intent          |-> raw.intent,
          category        |-> category,
          clause_filters  |-> _resolve_structured_filters(
                                  Get(raw, "clause_filters", EmptyDict),
                                  intake, extracted),
          required_fields |-> IF required # << >> THEN required
                              ELSE output_schema.keys,
          min_content     |-> Get(raw, "min_content", << >>),
          fallback_policy |-> FallbackPolicy(
                                  Get(raw, "fallback_policy", EmptyDict)),
          output_schema   |-> output_schema ]

\* retrieval_specs entry built in run_plan for one section
RetrievalSpec(section_def) ==
    [ section         |-> section_def.name,
      category        |-> section_def.category,
      clause_filters  |-> section_def.clause_filters,
      fallback_policy |-> section_def.fallback_policy ]

\* raw plan sections offered to run_plan
SmallPolicy ==
    [min_clauses |-> 1, relaxation_order |-> <<"tags", "industry">>,
     max_retries |-> 1]

RawScope ==
    [ name |-> "Scope", intent |-> "deliverables",
      clause_filters |-> [tags |-> Lst({"scope"}),
                          industry |-> IntakeRef("industry")],
      fallback_policy |-> SmallPolicy ]

RawArchitecture ==
    [ name |-> "Architecture", intent |-> "target state",
      category |-> "technical",
      fallback_policy |-> [min_clauses |-> 1, relaxation_order |-> <<"tags">>,
                           max_retries |-> 0] ]

\* a technical section whose own output_schema gives architecture_pattern a
\* list default
RawPattern ==
    [ name |-> "Architecture", intent |-> "target state",
      category |-> "technical",
      output_schema |->
          SchemaOf(<<"overview", "architecture_pattern">>,
                   [overview |-> Text(<< >>),
                    architecture_pattern |-> Lst({})]),
      fallback_policy |-> [min_clauses |-> 1, relaxation_order |-> <<"tags">>,
                           max_retries |-> 0] ]

RawNoIntent == [ name |-> "Terms", intent |-> "" ]

RawBadCategory ==
    [ name |-> "Terms", intent |-> "legal terms", category |-> "appendix" ]

PlanInputs ==
    { [sections |-> << >>],
      [sections |-> <<RawScope>>],
      [sections |-> <<RawPattern>>],
      [sections |-> <<RawScope, RawNoIntent>>],
      [sections |-> <<RawBadCategory>>] }


(***************************************************************************)
(* Retrieval with relaxation                                               *)
(***************************************************************************)
\* a clause candidate as retrieve_section_clauses returns it: score is the
\* relevance score in hundredths, mentions the section names that occur in
\* its clause text
Candidate(chunk_id, score, mentions) ==
    [chunk_id |-> chunk_id, score |-> score, mentions |-> mentions]

CandLow == Candidate("kb-1", 50, {})
CandHigh == Candidate("kb-2", 90, {"Scope"})

\* candidate lists the retrieval service can answer one query with
CandidateLists == { << >>, <<CandLow, CandHigh>> }

\* candidates[:n]
Take(seq, n) == SubSeq(seq, 1, IF n < Len(seq) THEN n ELSE Len(seq))

ContextDefaultFilters ==
    {"industry", "region", "deployment_model", "architecture_pattern"}

build_retrieval_query(section_def, extracted_context, relaxed_dimensions) ==
    LET relaxed == { relaxed_dimensions[i] :
                       i \in 1..Len(relaxed_dimensions) }
        filters == section_def.clause_filters
        from_filters == { key \in DOMAIN filters :
                            /\ key \in RETRIEVAL_FILTER_FIELDS
                            /\ key \notin relaxed
                            /\ Truthy(filters[key]) }
        from_defaults == { key \in ContextDefaultFilters :
                             /\ key \notin relaxed
                             /\ key \notin from_filters
                             /\ key # "section"
                             /\ Truthy(extracted_context[key]) }
    IN  [key \in {"section"} \cup from_filters \cup from_defaults |->
            IF key \in from_filters THEN filters[key]
            ELSE IF key = "section" THEN Str(section_def.name)
            ELSE extracted_context[key]]

\* the for-loop of _retrieve_with_fallback from iteration `attempt`
\* (0-based) on; answers[i] is what retrieve_section_clauses returns on the
\* i-th call.  error is "IndexError" when relaxation_order is empty and a
\* relaxation key is looked up; calls counts the retrieve_section_clauses
\* calls made.
RECURSIVE RetrieveLoop(_, _, _, _, _, _, _)
RetrieveLoop(section_def, extracted_context, answers, attempt, clauses, attempts, relaxed_dimensions) ==
    LET policy == section_def.fallback_policy
        query == build_retrieval_query(section_def, extracted_context,
                                       relaxed_dimensions)
        got == answers[attempt + 1]
        attempts2 == Append(attempts,
                        [attempt |-> attempt + 1, filters_used |-> query,
                         returned_count |-> Len(got)])
        order == policy.relaxation_order
        idx == IF attempt < Len(order) - 1 THEN attempt ELSE Len(order) - 1
        relax_key == order[idx + 1]
        done(cl, att, rel, err, calls) ==
            [clauses |-> cl, error |-> err, calls |-> calls,
             diagnostics |-> [attempts |-> att, final_count |-> Len(cl),
                              relaxed_dimensions |-> rel]]
    IN  IF attempt > policy.max_retries
        THEN done(clauses, attempts, relaxed_dimensions, "none", attempt)
        ELSE IF Len(got) >= policy.min_clauses
        THEN done(got, attempts2, relaxed_dimensions, "none", attempt + 1)
        ELSE IF attempt < policy.max_retries
        THEN IF order = << >>
             THEN done(got, attempts2, relaxed_dimensions, "IndexError",
                       attempt + 1)
             ELSE RetrieveLoop(section_def, extracted_context, answers,
                               attempt + 1, got, attempts2,
                               IF relax_key # "section"
                               THEN Append(relaxed_dimensions, relax_key)
                               ELSE relaxed_dimensions)
        ELSE RetrieveLoop(section_def, extracted_context, answers,
                          attempt + 1, got, attempts2, relaxed_dimensions)

\* answers[i] is the (normalised) answer of the retrieval service to the
\* i-th query; retrieve_section_clauses keeps candidates[:top_k]
_retrieve_with_fallback(section_def, extracted_context, top_k, answers) ==
    RetrieveLoop(section_def, extracted_context,
                 [i \in DOMAIN answers |-> Take(answers[i], top_k)],
                 0, << >>, << >>, << >>)

\* {s["name"]: s for s in plan["sections"]}: the last section of each name
SectionNames(sections) == { sections[i].name : i \in 1..Len(sections) }

SectionDefs(sections) ==
    [name \in SectionNames(sections) |->
        sections[CHOOSE i \in 1..Len(sections) :
                    /\ sections[i].name = name
                    /\ \A j \in (i + 1)..Len(sections) :
                           sections[j].name # name]]


(***************************************************************************)
(* Reranker                                                                *)
(***************************************************************************)
\* clause_rank: (score, boost), boost 1 when the section name occurs in the
\* clause text
ClauseRankBoost(section, item) == IF section \in item.mentions THEN 1 ELSE 0

\* tuple comparison (score, boost) > (score, boost)
RankGreater(section, a, b) ==
    \/ a.score > b.score
    \/ /\ a.score = b.score
       /\ ClauseRankBoost(section, a) > ClauseRankBoost(section, b)

\* seq without its i-th element
RemoveAt(seq, i) == SubSeq(seq, 1, i - 1) \o SubSeq(seq, i + 1, Len(seq))

\* sorted(clauses, key=clause_rank, reverse=True): descending and stable
RECURSIVE rerank_clauses(_, _)
rerank_clauses(section, clauses) ==
    IF clauses = << >> THEN << >>
    ELSE LET first == CHOOSE i \in 1..Len(clauses) :
                        /\ \A j \in 1..Len(clauses) :
                               ~RankGreater(section, clauses[j], clauses[i])
                        /\ \A j \in 1..(i - 1) :
                               RankGreater(section, clauses[i], clauses[j])
         IN  <<clauses[first]>>
             \o rerank_clauses(section, RemoveAt(clauses, first))

ChunkIds(clauses) == [i \in 1..Len(clauses) |-> clauses[i].chunk_id]

TOP_M == 4


(***************************************************************************)
(* Section writer, validator and rendering                                 *)
(***************************************************************************)
\* str.lower() on the words the model uses
Lower(word) ==
    CASE word = "TBD"       -> "tbd"
      [] word = "Hub-Spoke" -> "hub-spoke"
      [] word = "Migration" -> "migration"
      [] OTHER              -> word

\* the lower-cased words of a str value ("" has none)
LowerWords(x) ==
    IF x.t = "text" THEN [i \in 1..Len(x.v) |-> Lower(x.v[i])]
    ELSE IF x.v = "" THEN << >> ELSE <<Lower(x.v)>>

IsStr(x) == x.t \in {"str", "text"}
IsList(x) == x.t = "list"

\* JSON object the completion service returns for a writer prompt: it
\* fills the fields of the clause and of the technical schema
GoodSection ==
    [ section_summary      |-> Text(<<"provider", "delivers", "migration">>),
      obligations          |-> Lst({"deliver runbook"}),
      constraints          |-> Lst({"business hours"}),
      limitations          |-> Lst({"single region"}),
      overview             |-> Text(<<"landing", "zone">>),
      architecture_pattern |-> Text(<<"Hub-Spoke">>),
      core_components      |-> Lst({"load balancer"}),
      data_flow            |-> Text(<<"inbound">>),
      security_model       |-> Text(<<"zero", "trust">>),
      multi_tenancy_model  |-> Text(<<"compartments">>) ]

WriterResponses == { LlmRaise, LlmObject(GoodSection) }

SchemaKeySet(schema) == { schema.keys[i] : i \in 1..Len(schema.keys) }

SchemaDefaults(schema) == [k \in SchemaKeySet(schema) |-> schema.defaults[k]]

\* faulty variant of _run_writer_prompt: a parsed object is returned as the
\* completion service gave it
_run_writer_prompt_unfiltered(resp, section_schema) ==
    LET parsed == _parse_json_object(resp)
    IN  IF parsed = EmptyDict THEN SchemaDefaults(section_schema)
        ELSE parsed

_run_writer_prompt(resp, section_schema) ==
    LET parsed == _parse_json_object(resp)
    IN  IF parsed = EmptyDict THEN SchemaDefaults(section_schema)
        ELSE [key \in SchemaKeySet(section_schema) |->
                 Get(parsed, key, section_schema.defaults[key])]

\* f"{section_name}: {section_intent}. Client=... scope=..."
_generate_from_template(section_name, section_intent, section_schema, intake) ==
    [key \in SchemaKeySet(section_schema) |->
        IF key = "content"
        THEN Text(<<section_name, section_intent,
                    intake["client_name"].v, intake["project_scope"].v>>)
        ELSE section_schema.defaults[key]]

ActionItems ==
    Lst({"Refine clause filters and retry retrieval.",
         "Provide additional intake details for missing required fields."})

\* faulty variant of _build_tbd_output: every schema field gets the string
\* marker, whatever its default
_build_tbd_output_strings(section_def) ==
    LET schema == section_def.output_schema
    IN  [key \in SchemaKeySet(schema) \cup {"action_items"} |->
            IF key = "action_items" THEN ActionItems
            ELSE Text(<<"TBD">>)]

_build_tbd_output(section_def) ==
    LET schema == section_def.output_schema
    IN  [key \in SchemaKeySet(schema) \cup {"action_items"} |->
            IF key = "action_items" THEN ActionItems
            ELSE IF IsList(schema.defaults[key]) THEN Lst({"TBD"})
            ELSE Text(<<"TBD">>)]

\* current in (None, "", []) is False for a present key
_json_path_non_empty(doc, path) ==
    /\ path \in DOMAIN doc
    /\ doc[path] \notin {NoneV, Str(""), Text(<< >>), Lst({})}

\* service names the regex of _extract_services_from_section finds
ServiceNames ==
    {"OCI Vision", "OCI AI Services", "OCI Data Science", "Object Storage",
     "Data Science", "AI Services"}

_extract_services_from_section(section_json) ==
    UNION { LET value == section_json[key]
            IN  IF value.t = "text"
                THEN { value.v[i] : i \in 1..Len(value.v) } \cap ServiceNames
                ELSE IF value.t = "list" THEN value.v \cap ServiceNames
                ELSE IF value.t = "str" THEN {value.v} \cap ServiceNames
                ELSE {} : key \in DOMAIN section_json }

RECURSIVE SetToSeq(_)
SetToSeq(S) ==
    IF S = {} THEN << >>
    ELSE LET x == CHOOSE y \in S : TRUE IN <<x>> \o SetToSeq(S \ {x})

\* reasons of the required-field rule, in required_fields order
RECURSIVE RequiredReasonsFrom(_, _, _)
RequiredReasonsFrom(required_fields, i, section_json) ==
    IF i > Len(required_fields) THEN << >>
    ELSE (IF ~_json_path_non_empty(section_json, required_fields[i])
          THEN <<[rule |-> "required", field |-> required_fields[i]]>>
          ELSE << >>)
         \o RequiredReasonsFrom(required_fields, i + 1, section_json)

RequiredReasons(section_def, section_json) ==
    RequiredReasonsFrom(section_def.required_fields, 1, section_json)

\* min_content is a sequence of [field, min_words, min_items] in dict order
MinWordsBroken(rule, section_json) ==
    LET value == Get(section_json, rule.field, NoneV)
    IN  rule.min_words # 0 /\ IsStr(value)
        /\ Len(LowerWords(value)) < rule.min_words

MinItemsBroken(rule, section_json) ==
    LET value == Get(section_json, rule.field, NoneV)
    IN  rule.min_items # 0 /\ IsList(value)
        /\ Cardinality(value.v) < rule.min_items

RECURSIVE MinContentReasons(_, _, _)
MinContentReasons(min_content, i, section_json) ==
    IF i > Len(min_content) THEN << >>
    ELSE (IF MinWordsBroken(min_content[i], section_json)
          THEN <<[rule |-> "min_words", field |-> min_content[i].field]>>
          ELSE << >>)
         \o (IF MinItemsBroken(min_content[i], section_json)
             THEN <<[rule |-> "min_items", field |-> min_content[i].field]>>
             ELSE << >>)
         \o MinContentReasons(min_content, i + 1, section_json)

\* (x or "").strip() raises AttributeError for a truthy value that is no str
StripRaises(x) == Truthy(x) /\ ~IsStr(x)

PatternWords(x) == IF Truthy(x) THEN LowerWords(x) ELSE << >>

TechnicalReasons(section_json, extracted_context) ==
    LET expected_pattern ==
            PatternWords(extracted_context["architecture_pattern"])
        actual_pattern ==
            PatternWords(Get(section_json, "architecture_pattern", NoneV))
        allowed == { Lower(x) : x \in extracted_context["allowed_services"].v }
        disallowed == { x \in _extract_services_from_section(section_json) :
                          allowed # {} /\ Lower(x) \notin allowed }
        names == SetToSeq(disallowed)
    IN  (IF expected_pattern # << >> /\ actual_pattern # << >>
            /\ expected_pattern # actual_pattern
         THEN <<[rule |-> "architecture_pattern",
                 field |-> "architecture_pattern"]>>
         ELSE << >>)
        \o [j \in 1..Len(names) |-> [rule |-> "service", field |-> names[j]]]

\* error is the exception validate_section_output raises, "none" if it
\* returns (ok, reasons)
validate_section_output(section_def, section_json, extracted_context) ==
    LET technical == section_def.category = "technical"
        error ==
            IF technical
               /\ (\/ StripRaises(extracted_context["architecture_pattern"])
                   \/ StripRaises(Get(section_json, "architecture_pattern",
                                      NoneV)))
            THEN "AttributeError" ELSE "none"
        reasons ==
            RequiredReasons(section_def, section_json)
            \o MinContentReasons(section_def.min_content, 1, section_json)
            \o (IF technical
                THEN TechnicalReasons(section_json, extracted_context)
                ELSE << >>)
    IN  IF error # "none"
        THEN [ok |-> FALSE, reasons |-> << >>, error |-> error]
        ELSE [ok |-> reasons = << >>, reasons |-> reasons, error |-> "none"]

\* the lower-cased words of the Markdown of one section: heading, field
\* labels and field values
ValueWords(value) ==
    IF value.t = "list" THEN { Lower(x) : x \in value.v }
    ELSE IF IsStr(value)
    THEN { LowerWords(value)[i] : i \in 1..Len(LowerWords(value)) }
    ELSE {}

ArchitectureMarkdownFields ==
    {"overview", "architecture_pattern", "core_components", "data_flow",
     "security_model", "multi_tenancy_model", "limitations", "action_items"}

_render_section_markdown(section_name, category, content) ==
    LET shown == IF category = "technical"
                 THEN DOMAIN content \cap ArchitectureMarkdownFields
                 ELSE DOMAIN content
        heading == IF category = "technical"
                   THEN {"future", "state", "architecture"}
                   ELSE {Lower(section_name)}
    IN  heading \cup shown
        \cup UNION { ValueWords(content[key]) : key \in shown }

_resolve_writer_mode(category) ==
    CASE category = "technical" -> "TECHNICAL_SYNTHESIS_MODE"
      [] category = "template"  -> "TEMPLATE_MODE"
      [] OTHER                  -> "CLAUSE_ASSEMBLY_MODE"

(***************************************************************************)
(* SOWCase, WorkflowArtifact                                               *)
(***************************************************************************)
\* SOWCase(case_id, created_at, intake=dict(intake)): stage INIT, no
\* artifacts.  intake["structured_context"] is kept in its own field.
SOWCase(intake) ==
    [ intake             |-> intake,
      structured_context |-> NoCtx,
      stage              |-> "INIT",
      artifacts          |-> [s \in WorkflowStage |-> <<>>] ]

WorkflowArtifact(stage, version, payload) ==
    [stage |-> stage, version |-> version, payload |-> payload]

\* faulty variant of _append_artifact: a re-run overwrites the latest
\* artifact of the stage instead of appending a new version
_append_artifact_overwrite(sow_case, stage, payload) ==
    LET listed == sow_case.artifacts[stage]
        latest == Len(listed)
    IN  [sow_case EXCEPT !.artifacts[stage] =
            IF listed = << >>
            THEN <<WorkflowArtifact(stage, 1, payload)>>
            ELSE [listed EXCEPT
                    ![latest] = WorkflowArtifact(stage, latest, payload)]]

_append_artifact(sow_case, stage, payload) ==
    [sow_case EXCEPT !.artifacts[stage] =
        Append(@, WorkflowArtifact(stage, Len(@) + 1, payload))]

\* faulty variant of _ensure_stage: accepts every stage from the earliest
\* allowed one on (an ordering test in place of the membership test)
_ensure_stage_at_least(sow_case, allowed_stages) ==
    \E s \in allowed_stages : StageRank(sow_case.stage) >= StageRank(s)

\* faulty variant of _ensure_stage: also accepts the stage that follows an
\* allowed one
_ensure_stage_one_later(sow_case, allowed_stages) ==
    \E s \in allowed_stages :
        StageRank(sow_case.stage) \in {StageRank(s), StageRank(s) + 1}

\* TRUE when _ensure_stage returns, FALSE when it raises
_ensure_stage(sow_case, allowed_stages) == sow_case.stage \in allowed_stages

\* get_latest_artifact(...).payload (callers check the list is non-empty)
get_latest_artifact(sow_case, stage) ==
    sow_case.artifacts[stage][Len(sow_case.artifacts[stage])]

HasArtifact(sow_case, stage) == sow_case.artifacts[stage] # <<>>

\* what one call did: the case as it leaves it, "ok" or the exception it
\* raised, the values it assigned to case.stage in order, and the number of
\* completion-service calls it made
Outcome(sow_case, result, writes, llm_calls) ==
    [case |-> sow_case, result |-> result, writes |-> writes,
     llm_calls |-> llm_calls]

Raised(sow_case, exc) == Outcome(sow_case, exc, <<>>, 0)

(***************************************************************************)
(* Stage handlers as functions of the case                                 *)
(***************************************************************************)
\* faulty variant of run_extract: the stage check is missing
run_extract_call_unchecked(sow_case, resp) ==
    IF _extract_structured_context_error(sow_case.intake, resp) # "none"
    THEN Outcome(sow_case,
                 _extract_structured_context_error(sow_case.intake, resp),
                 <<>>, 1)
    ELSE LET extracted_context ==
                 _extract_structured_context(sow_case.intake, resp)
             with_ctx ==
                 [sow_case EXCEPT !.structured_context = extracted_context]
             appended ==
                 _append_artifact(with_ctx, "EXTRACTED",
                     [extracted_context |-> extracted_context])
         IN  Outcome([appended EXCEPT !.stage = "EXTRACTED"], "ok",
                     <<"EXTRACTED">>, 1)

\* faulty variant of run_extract: intake.update(extracted_context) in place
\* of intake["structured_context"] = extracted_context
run_extract_call_update(sow_case, resp) ==
    IF ~_ensure_stage(sow_case, {"INIT", "EXTRACTED"})
    THEN Raised(sow_case, "StateTransitionError")
    ELSE IF _extract_structured_context_error(sow_case.intake, resp) # "none"
    THEN Outcome(sow_case,
                 _extract_structured_context_error(sow_case.intake, resp),
                 <<>>, 1)
    ELSE LET extracted_context ==
                 _extract_structured_context(sow_case.intake, resp)
             with_ctx ==
                 [sow_case EXCEPT
                    !.structured_context = extracted_context,
                    !.intake = [k \in IntakeFields |->
                                   IF k \in ContextFields
                                   THEN extracted_context[k]
                                   ELSE sow_case.intake[k]]]
             appended ==
                 _append_artifact(with_ctx, "EXTRACTED",
                     [extracted_context |-> extracted_context])
         IN  Outcome([appended EXCEPT !.stage = "EXTRACTED"], "ok",
                     <<"EXTRACTED">>, 1)

\* faulty variant of run_extract: the EXTRACTED artifact is not appended
run_extract_call_no_artifact(sow_case, resp) ==
    IF ~_ensure_stage(sow_case, {"INIT", "EXTRACTED"})
    THEN Raised(sow_case, "StateTransitionError")
    ELSE IF _extract_structured_context_error(sow_case.intake, resp) # "none"
    THEN Outcome(sow_case,
                 _extract_structured_context_error(sow_case.intake, resp),
                 <<>>, 1)
    ELSE LET extracted_context ==
                 _extract_structured_context(sow_case.intake, resp)
             with_ctx ==
                 [sow_case EXCEPT !.structured_context = extracted_context]
         IN  Outcome([with_ctx EXCEPT !.stage = "EXTRACTED"], "ok",
                     <<"EXTRACTED">>, 1)

run_extract_call(sow_case, resp) ==
    IF ~_ensure_stage(sow_case, {"INIT", "EXTRACTED"})
    THEN Raised(sow_case, "StateTransitionError")
    ELSE IF _extract_structured_context_error(sow_case.intake, resp) # "none"
    THEN Outcome(sow_case,
                 _extract_structured_context_error(sow_case.intake, resp),
                 <<>>, 1)
    ELSE LET extracted_context ==
                 _extract_structured_context(sow_case.intake, resp)
             with_ctx ==
                 [sow_case EXCEPT !.structured_context = extracted_context]
             appended ==
                 _append_artifact(with_ctx, "EXTRACTED",
                     [extracted_context |-> extracted_context])
         IN  Outcome([appended EXCEPT !.stage = "EXTRACTED"], "ok",
                     <<"EXTRACTED">>, 1)


run_plan_call(sow_case, plan_input, resp) ==
    LET pre == IF sow_case.structured_context = NoCtx
               THEN run_extract_call(sow_case, resp)
               ELSE Outcome(sow_case, "ok", << >>, 0)
        c == pre.case
        sections == plan_input.sections
        extracted == c.structured_context
        normalized_sections ==
            [i \in 1..Len(sections) |->
                _normalize_section_definition(sections[i], c.intake,
                                              extracted)]
        retrieval_specs ==
            [i \in 1..Len(sections) |-> RetrievalSpec(normalized_sections[i])]
        appended ==
            _append_artifact(c, "PLAN_READY",
                [plan |-> [ sections           |-> normalized_sections,
                            retrieval_specs    |-> retrieval_specs,
                            structured_context |-> extracted ]])
    IN  IF pre.result # "ok" THEN pre
        ELSE IF ~_ensure_stage(c, {"EXTRACTED", "PLAN_READY"})
        THEN Outcome(c, "StateTransitionError", pre.writes, pre.llm_calls)
        ELSE IF \/ sections = << >>
                \/ \E i \in 1..Len(sections) : ~ValidRawSection(sections[i])
        THEN Outcome(c, "ValidationError", pre.writes, pre.llm_calls)
        ELSE Outcome([appended EXCEPT !.stage = "PLAN_READY"], "ok",
                     Append(pre.writes, "PLAN_READY"), pre.llm_calls)


\* retrieve_input: top_k, allow_partial, section_names ({} when not given);
\* answers[name][i] is the retrieval service's answer to the i-th query for
\* section name
run_retrieve_call(sow_case, retrieve_input, answers) ==
    LET plan == get_latest_artifact(sow_case, "PLAN_READY").payload.plan
        section_defs == SectionDefs(plan.sections)
        top_k == IF retrieve_input.top_k > 1 THEN retrieve_input.top_k ELSE 1
        allow_partial == retrieve_input.allow_partial
        selected_names == IF retrieve_input.section_names # {}
                          THEN retrieve_input.section_names
                          ELSE DOMAIN section_defs
        extracted == sow_case.structured_context
        visited == DOMAIN section_defs \cap selected_names
        found == [name \in visited |->
                     _retrieve_with_fallback(section_defs[name], extracted,
                                             top_k, answers[name])]
        retrieval_set == [name \in visited |-> found[name].clauses]
        diagnostics == [name \in visited |-> found[name].diagnostics]
        kept == IF allow_partial
                THEN { name \in visited : retrieval_set[name] # << >> }
                ELSE visited
        final_set == [name \in kept |-> retrieval_set[name]]
        appended ==
            _append_artifact(sow_case, "RETRIEVED",
                [ retrieval_set |-> final_set,
                  diagnostics   |-> diagnostics,
                  meta |-> [ requested_sections |-> selected_names,
                             returned_sections  |-> kept,
                             top_k              |-> top_k ] ])
    IN  IF ~_ensure_stage(sow_case, {"PLAN_READY", "RETRIEVED"})
        THEN Raised(sow_case, "StateTransitionError")
        ELSE IF \E name \in visited : found[name].error # "none"
        THEN Raised(sow_case, "IndexError")
        ELSE IF (\E name \in visited : retrieval_set[name] = << >>)
                /\ ~allow_partial
        THEN Raised(sow_case, "ValidationError")
        ELSE Outcome([appended EXCEPT !.stage = "RETRIEVED"], "ok",
                     <<"RETRIEVED">>, 0)


\* blueprint entry of one section of the retrieval set; a section that the
\* plan does not define gets the .get() defaults
\* faulty variant of BlueprintEntry: the candidates are truncated as
\* retrieved, without reranking
BlueprintEntry_unranked(section_name, clauses, section_defs) ==
    LET known == section_name \in DOMAIN section_defs
        cfg == section_defs[section_name]
        category == IF known THEN cfg.category ELSE "clause"
        reranked == Take(clauses, TOP_M)
    IN  [ section_intent     |-> IF known THEN cfg.intent ELSE "",
          category           |-> category,
          order              |-> ChunkIds(reranked),
          primary_clause_ids |-> ChunkIds(Take(reranked, 2)),
          primary_clauses    |-> Take(reranked, 2),
          reranked_clauses   |-> reranked,
          output_schema      |-> IF known /\ cfg.output_schema.keys # << >>
                                 THEN cfg.output_schema
                                 ELSE DEFAULT_SECTION_SCHEMAS[category],
          required_fields    |-> IF known THEN cfg.required_fields
                                 ELSE << >>,
          min_content        |-> IF known THEN cfg.min_content
                                 ELSE << >>,
          fallback_policy    |-> IF known THEN cfg.fallback_policy
                                 ELSE EmptyDict,
          clause_filters     |-> IF known THEN cfg.clause_filters
                                 ELSE EmptyDict ]

BlueprintEntry(section_name, clauses, section_defs) ==
    LET known == section_name \in DOMAIN section_defs
        cfg == section_defs[section_name]
        category == IF known THEN cfg.category ELSE "clause"
        reranked == Take(rerank_clauses(section_name, clauses), TOP_M)
    IN  [ section_intent     |-> IF known THEN cfg.intent ELSE "",
          category           |-> category,
          order              |-> ChunkIds(reranked),
          primary_clause_ids |-> ChunkIds(Take(reranked, 2)),
          primary_clauses    |-> Take(reranked, 2),
          reranked_clauses   |-> reranked,
          output_schema      |-> IF known /\ cfg.output_schema.keys # << >>
                                 THEN cfg.output_schema
                                 ELSE DEFAULT_SECTION_SCHEMAS[category],
          required_fields    |-> IF known THEN cfg.required_fields
                                 ELSE << >>,
          min_content        |-> IF known THEN cfg.min_content
                                 ELSE << >>,
          fallback_policy    |-> IF known THEN cfg.fallback_policy
                                 ELSE EmptyDict,
          clause_filters     |-> IF known THEN cfg.clause_filters
                                 ELSE EmptyDict ]

\* faulty variant of run_assemble: reranking is a step of its own, which
\* appends the RERANKED artifact and leaves the case at RERANKED
run_assemble_call_stops_at_reranked(sow_case) ==
    LET retrieval_payload == get_latest_artifact(sow_case, "RETRIEVED").payload
        reranked ==
            _append_artifact(sow_case, "RERANKED",
                [ retrieval_set |-> retrieval_payload.retrieval_set,
                  diagnostics   |-> EmptyDict ])
    IN  IF ~_ensure_stage(sow_case, {"RETRIEVED", "RERANKED", "ASSEMBLED"})
        THEN Raised(sow_case, "StateTransitionError")
        ELSE Outcome([reranked EXCEPT !.stage = "RERANKED"], "ok",
                     <<"RERANKED">>, 0)

run_assemble_call(sow_case) ==
    LET retrieval_payload == get_latest_artifact(sow_case, "RETRIEVED").payload
        plan == get_latest_artifact(sow_case, "PLAN_READY").payload.plan
        section_defs == SectionDefs(plan.sections)
        retrieval_set == retrieval_payload.retrieval_set
        blueprint ==
            [name \in DOMAIN retrieval_set |->
                BlueprintEntry(name, retrieval_set[name], section_defs)]
        rerank_diagnostics ==
            [name \in DOMAIN retrieval_set |->
                [ pre_rerank_count  |-> Len(retrieval_set[name]),
                  post_rerank_count |-> Len(blueprint[name].reranked_clauses),
                  top_m             |-> TOP_M ]]
        reranked ==
            _append_artifact(sow_case, "RERANKED",
                [ retrieval_set |-> retrieval_set,
                  diagnostics   |-> rerank_diagnostics ])
        assembled ==
            _append_artifact(reranked, "ASSEMBLED",
                [assembly_blueprint |-> blueprint])
    IN  IF ~_ensure_stage(sow_case, {"RETRIEVED", "RERANKED", "ASSEMBLED"})
        THEN Raised(sow_case, "StateTransitionError")
        ELSE Outcome([assembled EXCEPT !.stage = "ASSEMBLED"], "ok",
                     <<"ASSEMBLED">>, 0)


\* the for-loop of _write_with_validation_retry from iteration `attempt`
\* (0-based) on; resps[i] is the completion service's answer to the i-th
\* writer prompt.  The candidates re-retrieved after a failed attempt only
\* feed the next prompt, whose answer is any of WriterResponses.
WriteResult(output, attempts, error, llm_calls) ==
    [output |-> output, diagnostics |-> [attempts |-> attempts],
     error |-> error, llm_calls |-> llm_calls]

\* the entry one attempt appends to the diagnostics
WriteAttempt(section_def, attempt, checked) ==
    [ attempt     |-> attempt + 1,
      writer_mode |-> _resolve_writer_mode(section_def.category),
      pass        |-> checked.ok,
      reasons     |-> checked.reasons ]

\* the output one attempt writes
WriteOutput(section_def, intake, resps, attempt) ==
    IF section_def.category = "template"
    THEN _generate_from_template(section_def.name, section_def.intent,
                                 section_def.output_schema, intake)
    ELSE _run_writer_prompt(resps[attempt + 1], section_def.output_schema)

RECURSIVE WriteLoop(_, _, _, _, _, _)
RECURSIVE WriteChecked(_, _, _, _, _, _, _, _)
\* one iteration after its output was validated
WriteChecked(section_def, intake, extracted_context, resps, attempt, attempts, output, checked) ==
    IF checked.error # "none"
    THEN WriteResult(output, attempts, checked.error,
                     IF section_def.category = "template" THEN 0
                     ELSE attempt + 1)
    ELSE IF checked.ok
    THEN WriteResult(output,
                     Append(attempts,
                            WriteAttempt(section_def, attempt, checked)),
                     "none",
                     IF section_def.category = "template" THEN 0
                     ELSE attempt + 1)
    ELSE WriteLoop(section_def, intake, extracted_context, resps,
                   attempt + 1,
                   Append(attempts,
                          WriteAttempt(section_def, attempt, checked)))

\* one iteration after its output was written
WriteValidated(section_def, intake, extracted_context, resps, attempt, attempts, output) ==
    WriteChecked(section_def, intake, extracted_context, resps, attempt,
                 attempts, output,
                 validate_section_output(section_def, output,
                                         extracted_context))

WriteLoop(section_def, intake, extracted_context, resps, attempt, attempts) ==
    IF attempt > section_def.fallback_policy.max_retries
    THEN WriteResult(_build_tbd_output(section_def), attempts, "none",
                     IF section_def.category = "template" THEN 0
                     ELSE attempt)
    ELSE WriteValidated(section_def, intake, extracted_context, resps,
                        attempt, attempts,
                        WriteOutput(section_def, intake, resps, attempt))

_write_with_validation_retry(section_def, intake, extracted_context, resps) ==
    WriteLoop(section_def, intake, extracted_context, resps, 0, << >>)

\* faulty variant of DraftedSection: the source mapping names the first
\* candidate only
DraftedSection_one_source(section_def, blueprint, written) ==
    LET assembled == section_def.name \in DOMAIN blueprint
        candidates == IF assembled
                      THEN blueprint[section_def.name].reranked_clauses
                      ELSE << >>
    IN  [ name               |-> section_def.name,
          intent             |-> section_def.intent,
          category           |-> section_def.category,
          writer_mode        |-> _resolve_writer_mode(section_def.category),
          structured_content |-> written.output,
          draft_markdown     |->
              _render_section_markdown(section_def.name, section_def.category,
                                       written.output),
          source_mapping     |->
              <<[paragraph |-> 1, clause_ids |-> ChunkIds(Take(candidates, 1))]>> ]

\* one entry of structured_sections
DraftedSection(section_def, blueprint, written) ==
    LET assembled == section_def.name \in DOMAIN blueprint
        candidates == IF assembled
                      THEN blueprint[section_def.name].reranked_clauses
                      ELSE << >>
    IN  [ name               |-> section_def.name,
          intent             |-> section_def.intent,
          category           |-> section_def.category,
          writer_mode        |-> _resolve_writer_mode(section_def.category),
          structured_content |-> written.output,
          draft_markdown     |->
              _render_section_markdown(section_def.name, section_def.category,
                                       written.output),
          source_mapping     |->
              <<[paragraph |-> 1, clause_ids |-> ChunkIds(Take(candidates, 2))]>> ]

\* the entry one section appends to the diagnostics of run_write
SectionDiagnostics(section_def, written) ==
    [ section    |-> section_def.name,
      validation |-> written.diagnostics,
      llm_calls  |-> written.llm_calls ]

\* the section loop of run_write from section i on: error is the exception
\* that leaves the loop, "none" when every section was drafted
RECURSIVE WriteSections(_, _, _, _, _, _, _, _)
RECURSIVE WriteSection(_, _, _, _, _, _, _, _, _)
\* one iteration after _write_with_validation_retry has returned `written`
WriteSection(sow_case, sections, blueprint, prohibited, responses, i, drafted, diag, written) ==
    IF written.error # "none"
    THEN [sections |-> drafted,
          diag |-> Append(diag, SectionDiagnostics(sections[i], written)),
          error |-> written.error]
    ELSE IF \E word \in prohibited :
               Lower(word) \in _render_section_markdown(
                                  sections[i].name, sections[i].category,
                                  written.output)
    THEN [sections |-> drafted,
          diag |-> Append(diag, SectionDiagnostics(sections[i], written)),
          error |-> "ValidationError"]
    ELSE WriteSections(sow_case, sections, blueprint, prohibited, responses,
                       i + 1,
                       Append(drafted,
                              DraftedSection(sections[i], blueprint, written)),
                       Append(diag, SectionDiagnostics(sections[i], written)))

\* faulty variant of WriteSections: a section without an entry in the
\* assembly blueprint is skipped instead of being written from no candidate
WriteSections_assembled_only(sow_case, sections, blueprint, prohibited, responses, i, drafted, diag) ==
    IF i > Len(sections)
    THEN [sections |-> drafted, diag |-> diag, error |-> "none"]
    ELSE IF sections[i].name \notin DOMAIN blueprint
    THEN WriteSections(sow_case, sections, blueprint, prohibited, responses,
                       i + 1, drafted, diag)
    ELSE WriteSection(sow_case, sections, blueprint, prohibited, responses,
                      i, drafted, diag,
                      _write_with_validation_retry(
                          sections[i], sow_case.intake,
                          sow_case.structured_context, responses[i]))

WriteSections(sow_case, sections, blueprint, prohibited, responses, i, drafted, diag) ==
    IF i > Len(sections)
    THEN [sections |-> drafted, diag |-> diag, error |-> "none"]
    ELSE WriteSection(sow_case, sections, blueprint, prohibited, responses,
                      i, drafted, diag,
                      _write_with_validation_retry(
                          sections[i], sow_case.intake,
                          sow_case.structured_context, responses[i]))

RECURSIVE SumCalls(_, _)
SumCalls(diag, i) ==
    IF i > Len(diag) THEN 0 ELSE diag[i].llm_calls + SumCalls(diag, i + 1)

run_validate_call(sow_case) ==
    LET draft_sections ==
            get_latest_artifact(sow_case, "DRAFTED").payload.draft
                .structured_sections
        plan == get_latest_artifact(sow_case, "PLAN_READY").payload.plan
        extracted == sow_case.structured_context
        section_cfg == SectionDefs(plan.sections)
        checked ==
            [i \in 1..Len(draft_sections) |->
                validate_section_output(section_cfg[draft_sections[i].name],
                                        draft_sections[i].structured_content,
                                        extracted)]
        failing == { i \in 1..Len(draft_sections) : ~checked[i].ok }
        RECURSIVE Findings(_)
        Findings(i) ==
            IF i > Len(draft_sections) THEN << >>
            ELSE (IF i \in failing
                  THEN <<[ section |-> draft_sections[i].name,
                           reasons |-> checked[i].reasons ]>>
                  ELSE << >>) \o Findings(i + 1)
        status == IF failing = {} THEN "pass" ELSE "fail"
        appended ==
            _append_artifact(sow_case, "VALIDATED",
                [validation_report |->
                    [status |-> status, findings |-> Findings(1)]])
    IN  IF ~_ensure_stage(sow_case, {"DRAFTED", "VALIDATED"})
        THEN Raised(sow_case, "StateTransitionError")
        ELSE IF \E i \in 1..Len(draft_sections) : checked[i].error # "none"
        THEN Raised(sow_case, "AttributeError")
        ELSE Outcome([appended EXCEPT !.stage = "VALIDATED"], "ok",
                     <<"VALIDATED">>, 0)

\* the case after run_write has appended its DRAFTED artifact and set the
\* stage
DraftedCase(sow_case, loop) ==
    [ _append_artifact(sow_case, "DRAFTED",
          [ draft |->
              [ structured_sections |-> loop.sections,
                sections_json |->
                    [name \in SectionNames(loop.sections) |->
                        SectionDefs(loop.sections)[name].structured_content],
                markdown |->
                    [ current_stage |-> sow_case.stage,
                      sections |->
                          [i \in 1..Len(loop.sections) |->
                              loop.sections[i].draft_markdown] ] ],
            diagnostics |->
              [ extracted_context |-> sow_case.structured_context,
                sections |-> loop.diag,
                writer_calls |-> Len(loop.sections) ] ])
      EXCEPT !.stage = "DRAFTED" ]

\* run_write after its nested run_validate has returned or raised
WriteValidates(validated, llm_calls) ==
    Outcome(validated.case, validated.result,
            <<"DRAFTED">> \o validated.writes, llm_calls)

\* run_write after its section loop
WriteDraft(sow_case, loop) ==
    IF loop.error # "none"
    THEN Outcome(sow_case, loop.error, << >>, SumCalls(loop.diag, 1))
    ELSE WriteValidates(run_validate_call(DraftedCase(sow_case, loop)),
                        SumCalls(loop.diag, 1))

\* write_input: prohibited_commitments; responses[i][j] is the completion
\* service's answer to the j-th writer prompt of the i-th plan section
run_write_call(sow_case, write_input, responses) ==
    IF ~_ensure_stage(sow_case, {"ASSEMBLED", "DRAFTED", "VALIDATED"})
    THEN Raised(sow_case, "StateTransitionError")
    ELSE WriteDraft(
             sow_case,
             WriteSections(
                 sow_case,
                 get_latest_artifact(sow_case, "PLAN_READY").payload.plan
                     .sections,
                 get_latest_artifact(sow_case, "ASSEMBLED").payload
                     .assembly_blueprint,
                 write_input.prohibited_commitments,
                 responses, 1, << >>, << >>))

DefaultForbiddenPhrases == <<"guarantee", "without exception">>

\* findings of run_review for section i on, phrases in list order
RECURSIVE PhraseFindings(_, _, _)
\* faulty variant of PhraseFindings: the phrase is searched as the caller
\* wrote it, not lower-cased
PhraseFindings_case_sensitive(section_data, phrases, j) ==
    IF j > Len(phrases) THEN << >>
    ELSE (IF phrases[j] \in section_data.draft_markdown
          THEN <<[ severity |-> "critical", type |-> "risk",
                   section |-> section_data.name, evidence |-> phrases[j] ]>>
          ELSE << >>) \o PhraseFindings(section_data, phrases, j + 1)

PhraseFindings(section_data, phrases, j) ==
    IF j > Len(phrases) THEN << >>
    ELSE (IF Lower(phrases[j]) \in section_data.draft_markdown
          THEN <<[ severity |-> "critical", type |-> "risk",
                   section |-> section_data.name, evidence |-> phrases[j] ]>>
          ELSE << >>) \o PhraseFindings(section_data, phrases, j + 1)

RECURSIVE ReviewFindings(_, _, _)
ReviewFindings(draft, phrases, i) ==
    IF i > Len(draft) THEN << >>
    ELSE PhraseFindings(draft[i], phrases, 1)
         \o (IF draft[i].source_mapping = << >>
             THEN <<[ severity |-> "critical", type |-> "grounding",
                      section |-> draft[i].name,
                      evidence |-> "missing source mapping" ]>>
             ELSE << >>)
         \o ReviewFindings(draft, phrases, i + 1)

run_review_call(sow_case, review_input) ==
    LET draft == get_latest_artifact(sow_case, "DRAFTED").payload.draft
                     .structured_sections
        forbidden_phrases ==
            Get(review_input, "forbidden_phrases", DefaultForbiddenPhrases)
        findings == ReviewFindings(draft, forbidden_phrases, 1)
        status == IF \E i \in 1..Len(findings) :
                         findings[i].severity = "critical"
                  THEN "fail" ELSE "pass"
        appended ==
            _append_artifact(sow_case, "REVIEWED",
                [review_report |-> [status |-> status, findings |-> findings]])
    IN  IF ~_ensure_stage(sow_case, {"VALIDATED", "REVIEWED"})
        THEN Raised(sow_case, "StateTransitionError")
        ELSE Outcome([appended EXCEPT !.stage = "REVIEWED"], "ok",
                     <<"REVIEWED">>, 0)

\* faulty variant of approve: the review status is not checked
approve_call_any_status(sow_case) ==
    IF ~_ensure_stage(sow_case, {"REVIEWED"})
    THEN Raised(sow_case, "StateTransitionError")
    ELSE Outcome([sow_case EXCEPT !.stage = "APPROVED"], "ok",
                 <<"APPROVED">>, 0)

\* faulty variant of approve: APPROVED is allowed like the target stage of
\* the other handlers
approve_call_again(sow_case) ==
    IF ~_ensure_stage(sow_case, {"REVIEWED", "APPROVED"})
    THEN Raised(sow_case, "StateTransitionError")
    ELSE IF get_latest_artifact(sow_case, "REVIEWED").payload.review_report
                .status # "pass"
    THEN Raised(sow_case, "StateTransitionError")
    ELSE Outcome([sow_case EXCEPT !.stage = "APPROVED"], "ok",
                 <<"APPROVED">>, 0)

\* faulty variant of approve: the assignment to case.stage is missing
approve_call_no_stage(sow_case) ==
    IF ~_ensure_stage(sow_case, {"REVIEWED"})
    THEN Raised(sow_case, "StateTransitionError")
    ELSE IF get_latest_artifact(sow_case, "REVIEWED").payload.review_report
                .status # "pass"
    THEN Raised(sow_case, "StateTransitionError")
    ELSE Outcome(sow_case, "ok", << >>, 0)

approve_call(sow_case) ==
    IF ~_ensure_stage(sow_case, {"REVIEWED"})
    THEN Raised(sow_case, "StateTransitionError")
    ELSE IF get_latest_artifact(sow_case, "REVIEWED").payload.review_report
                .status # "pass"
    THEN Raised(sow_case, "StateTransitionError")
    ELSE Outcome([sow_case EXCEPT !.stage = "APPROVED"], "ok",
                 <<"APPROVED">>, 0)

(***************************************************************************)
(* State                                                                   *)
(***************************************************************************)
Registered == DOMAIN cases

\* stages whose lists one handler call appends to together (run_assemble:
\* RERANKED and ASSEMBLED; run_write: DRAFTED and, through run_validate,
\* VALIDATED)
StageGroups ==
    { {"EXTRACTED"}, {"PLAN_READY"}, {"RETRIEVED"}, {"RERANKED", "ASSEMBLED"},
      {"DRAFTED", "VALIDATED"}, {"REVIEWED"} }

\* length of the longest artifact list of a group of stages
Longest(sow_case, group) ==
    LET lens == { Len(sow_case.artifacts[s]) : s \in group }
    IN  CHOOSE n \in lens : \A m \in lens : m <= n

\* number of handler calls of a case that appended to a list that was not
\* empty (re-runs)
RECURSIVE Reruns(_, _)
Reruns(sow_case, groups) ==
    IF groups = {} THEN 0
    ELSE LET g == CHOOSE x \in groups : TRUE
             n == Longest(sow_case, g)
         IN  (IF n > 1 THEN n - 1 ELSE 0) + Reruns(sow_case, groups \ {g})

\* exploration bound: a call is followed only while every case it leaves
\* stays within MaxReruns
WithinBounds(registry) ==
    \A c \in DOMAIN registry : Reruns(registry[c], StageGroups) <= MaxReruns

\* no call made yet
NoCall ==
    [op |-> "none", case_id |-> "", stage_before |-> "", result |-> "ok",
     writes |-> <<>>, llm_calls |-> 0]

\* record of one call: stage_before is case.stage when the call started
\* ("" when the call found no case)
Called(op, case_id, stage_before, out) ==
    [op |-> op, case_id |-> case_id, stage_before |-> stage_before,
     result |-> out.result, writes |-> out.writes,
     llm_calls |-> out.llm_calls]

Init ==
    /\ cases = << >>
    /\ last = NoCall

\* faulty variant of StageCall: the case the call returns is stored under
\* every registered id
StageCall_every_case(op, case_id, out) ==
    /\ cases' = [c \in DOMAIN cases |-> out.case]
    /\ WithinBounds(cases')
    /\ last' = Called(op, case_id, cases[case_id].stage, out)

\* a stage call on a registered case: the registry keeps the case as the
\* handler left it, whether it returned or raised
StageCall(op, case_id, out) ==
    /\ cases' = [cases EXCEPT ![case_id] = out.case]
    /\ WithinBounds(cases')
    /\ last' = Called(op, case_id, cases[case_id].stage, out)

\* get_case raises ValidationError for an id that is not in the registry
UnknownCase(op, case_id) ==
    /\ case_id \notin Registered
    /\ UNCHANGED cases
    /\ last' = Called(op, case_id, "", Raised(NoneV, "ValidationError"))

(***************************************************************************)
(* Operations                                                              *)
(***************************************************************************)
\* faulty variant of _validate_intake: "region" is left out of the list of
\* required fields
_validate_intake_no_region(intake) ==
    \A field \in RequiredIntakeFields \ {"region"} : Truthy(intake[field])

\* missing = [field for field in required if not intake.get(field)]
_validate_intake(intake) ==
    \A field \in RequiredIntakeFields : Truthy(intake[field])

\* case_id is the id uuid4() returns: one that is not in the registry
create_case(case_id, intake, resp) ==
    IF ~_validate_intake(intake)
    THEN /\ UNCHANGED cases
         /\ last' = Called("create_case", "", "",
                            Raised(NoneV, "ValidationError"))
    ELSE /\ case_id \notin Registered
         /\ LET out == run_extract_call(SOWCase(intake), resp)
            IN  /\ cases' = [c \in Registered \cup {case_id} |->
                                IF c = case_id THEN out.case ELSE cases[c]]
                /\ WithinBounds(cases')
                /\ last' = Called("create_case", case_id, "INIT", out)

run_extract(case_id, resp) ==
    \/ UnknownCase("run_extract", case_id)
    \/ /\ case_id \in Registered
       /\ StageCall("run_extract", case_id,
                    run_extract_call(cases[case_id], resp))

\* the completion response is read only when run_plan has to extract first
run_plan(case_id, plan_input, resp) ==
    \/ UnknownCase("run_plan", case_id)
    \/ /\ case_id \in Registered
       /\ StageCall("run_plan", case_id,
                    run_plan_call(cases[case_id], plan_input, resp))

\* most answers one section can consume: max_retries + 1
AnswerCount == SmallPolicy.max_retries + 1

AnswerSeqs(answer_set) == UNION { [1..k -> answer_set] : k \in 1..AnswerCount }

\* one answer list per retrieval query of every section of the plan
RetrievalAnswers(section_defs) ==
    { f \in [DOMAIN section_defs -> AnswerSeqs(CandidateLists)] :
        \A name \in DOMAIN section_defs :
            Len(f[name]) = section_defs[name].fallback_policy.max_retries + 1 }

RetrieveInputs ==
    { [top_k |-> 8, allow_partial |-> ap, section_names |-> {}] :
        ap \in BOOLEAN }

run_retrieve(case_id, retrieve_input, answers) ==
    \/ UnknownCase("run_retrieve", case_id)
    \/ /\ case_id \in Registered
       /\ StageCall("run_retrieve", case_id,
                    run_retrieve_call(cases[case_id], retrieve_input, answers))

run_assemble(case_id) ==
    \/ UnknownCase("run_assemble", case_id)
    \/ /\ case_id \in Registered
       /\ StageCall("run_assemble", case_id, run_assemble_call(cases[case_id]))

WriteInputs ==
    { [prohibited_commitments |-> {}],
      [prohibited_commitments |-> {"migration"}] }

\* one answer per writer prompt of every section of the plan
WriterAnswers(sections) ==
    { f \in [1..Len(sections) -> AnswerSeqs(WriterResponses)] :
        \A i \in 1..Len(sections) :
            Len(f[i]) = sections[i].fallback_policy.max_retries + 1 }

ReviewInputs ==
    { EmptyDict, [forbidden_phrases |-> <<"migration">>] }

run_write(case_id, write_input, responses) ==
    \/ UnknownCase("run_write", case_id)
    \/ /\ case_id \in Registered
       /\ StageCall("run_write", case_id,
                    run_write_call(cases[case_id], write_input, responses))

run_validate(case_id) ==
    \/ UnknownCase("run_validate", case_id)
    \/ /\ case_id \in Registered
       /\ StageCall("run_validate", case_id, run_validate_call(cases[case_id]))

run_review(case_id, review_input) ==
    \/ UnknownCase("run_review", case_id)
    \/ /\ case_id \in Registered
       /\ StageCall("run_review", case_id,
                    run_review_call(cases[case_id], review_input))

approve(case_id) ==
    \/ UnknownCase("approve", case_id)
    \/ /\ case_id \in Registered
       /\ StageCall("approve", case_id, approve_call(cases[case_id]))

(***************************************************************************)
(* Inputs a call reads: a call that fails its stage check reads none, so   *)
(* one representative input stands for all                                 *)
(***************************************************************************)
One(S) == {CHOOSE x \in S : TRUE}

Passes(case_id, allowed_stages) ==
    /\ case_id \in Registered
    /\ _ensure_stage(cases[case_id], allowed_stages)

ExtractResponsesRead(case_id, allowed_stages) ==
    IF Passes(case_id, allowed_stages) THEN ExtractResponses
    ELSE One(ExtractResponses)

PlanResponsesRead(case_id) ==
    IF case_id \in Registered /\ cases[case_id].structured_context = NoCtx
    THEN ExtractResponsesRead(case_id, {"INIT", "EXTRACTED"})
    ELSE One(ExtractResponses)

PlanInputsRead(case_id) ==
    IF Passes(case_id, {"INIT", "EXTRACTED", "PLAN_READY"}) THEN PlanInputs
    ELSE One(PlanInputs)

RetrieveInputsRead(case_id) ==
    IF Passes(case_id, {"PLAN_READY", "RETRIEVED"}) THEN RetrieveInputs
    ELSE One(RetrieveInputs)

LatestPlan(case_id) ==
    get_latest_artifact(cases[case_id], "PLAN_READY").payload.plan

RetrievalAnswersRead(case_id) ==
    IF Passes(case_id, {"PLAN_READY", "RETRIEVED"})
    THEN RetrievalAnswers(SectionDefs(LatestPlan(case_id).sections))
    ELSE {<< >>}

WriteInputsRead(case_id) ==
    IF Passes(case_id, {"ASSEMBLED", "DRAFTED", "VALIDATED"}) THEN WriteInputs
    ELSE One(WriteInputs)

WriterAnswersRead(case_id) ==
    IF Passes(case_id, {"ASSEMBLED", "DRAFTED", "VALIDATED"})
    THEN WriterAnswers(LatestPlan(case_id).sections)
    ELSE {<< >>}

ReviewInputsRead(case_id) ==
    IF Passes(case_id, {"VALIDATED", "REVIEWED"}) THEN ReviewInputs
    ELSE One(ReviewInputs)

Next ==
    \/ \E case_id \in CaseIds, intake \in Intakes :
           \E resp \in (IF _validate_intake(intake) THEN ExtractResponses
                        ELSE One(ExtractResponses)) :
               create_case(case_id, intake, resp)
    \/ \E case_id \in CaseIds :
           \E resp \in ExtractResponsesRead(case_id, {"INIT", "EXTRACTED"}) :
               run_extract(case_id, resp)
    \/ \E case_id \in CaseIds :
           \E plan_input \in PlanInputsRead(case_id),
              resp \in PlanResponsesRead(case_id) :
               run_plan(case_id, plan_input, resp)
    \/ \E case_id \in CaseIds :
           \E retrieve_input \in RetrieveInputsRead(case_id),
              answers \in RetrievalAnswersRead(case_id) :
               run_retrieve(case_id, retrieve_input, answers)
    \/ \E case_id \in CaseIds : run_assemble(case_id)
    \/ \E case_id \in CaseIds :
           \E write_input \in WriteInputsRead(case_id),
              responses \in WriterAnswersRead(case_id) :
               run_write(case_id, write_input, responses)
    \/ \E case_id \in CaseIds : run_validate(case_id)
    \/ \E case_id \in CaseIds :
           \E review_input \in ReviewInputsRead(case_id) :
               run_review(case_id, review_input)
    \/ \E case_id \in CaseIds : approve(case_id)

Spec == Init /\ [][Next]_vars

(***************************************************************************)
(* Properties                                                              *)
(***************************************************************************)
StageOps ==
    {"run_extract", "run_plan", "run_retrieve", "run_assemble", "run_write",
     "run_validate", "run_review", "approve"}

\* the most recent call was a stage operation that found its case
OnCase == last.op \in StageOps /\ last.case_id \in Registered

\* the values case.stage had during the most recent call, in order
AssignedStages == <<last.stage_before>> \o last.writes

Forward(a, b) == StageRank(a) <= StageRank(b)

ReviewStatus(sow_case) ==
    get_latest_artifact(sow_case, "REVIEWED").payload.review_report.status

IsPrefix(a, b) ==
    \/ a = b
    \/ /\ Len(a) < Len(b)
       /\ a = SubSeq(b, 1, Len(a))

\* the stage a handler is named after
TargetStage(op) ==
    CASE op = "run_extract"  -> "EXTRACTED"
      [] op = "run_plan"     -> "PLAN_READY"
      [] op = "run_retrieve" -> "RETRIEVED"
      [] op = "run_assemble" -> "ASSEMBLED"
      [] op = "run_write"    -> "DRAFTED"
      [] op = "run_validate" -> "VALIDATED"
      [] op = "run_review"   -> "REVIEWED"
      [] op = "approve"      -> "APPROVED"

PreviousStage(s) == StageOrder[StageRank(s) - 1]

\* the stages each handler accepts
AllowedStages(op) ==
    CASE op = "run_extract"  -> {"INIT", "EXTRACTED"}
      [] op = "run_plan"     -> {"INIT", "EXTRACTED", "PLAN_READY"}
      [] op = "run_retrieve" -> {"PLAN_READY", "RETRIEVED"}
      [] op = "run_assemble" -> {"RETRIEVED", "RERANKED", "ASSEMBLED"}
      [] op = "run_write"    -> {"ASSEMBLED", "DRAFTED", "VALIDATED"}
      [] op = "run_validate" -> {"DRAFTED", "VALIDATED"}
      [] op = "run_review"   -> {"VALIDATED", "REVIEWED"}
      [] op = "approve"      -> {"REVIEWED"}

\* the lists a handler that returns has appended one artifact to
CompletedStages(op) ==
    CASE op = "run_extract"  -> {"EXTRACTED"}
      [] op = "run_plan"     -> {"PLAN_READY"}
      [] op = "run_retrieve" -> {"RETRIEVED"}
      [] op = "run_assemble" -> {"RERANKED", "ASSEMBLED"}
      [] op = "run_write"    -> {"DRAFTED", "VALIDATED"}
      [] op = "run_validate" -> {"VALIDATED"}
      [] op = "run_review"   -> {"REVIEWED"}
      [] op = "approve"      -> {}

\* the stage a handler that returns leaves the case in
EndStage(op) ==
    IF op = "run_write" THEN "VALIDATED" ELSE TargetStage(op)

C2_PredecessorOrItself ==
    OnCase =>
        (last.stage_before \notin
             {PreviousStage(TargetStage(last.op)), TargetStage(last.op)}
         => last.result = "StateTransitionError")

\* C2 as amended: each stage operation proceeds exactly from the stages in
\* its own list (AllowedStages) and raises StateTransitionError, assigning
\* no stage, from every other stage; from a stage of its list only approve
\* raises StateTransitionError, when the latest review did not pass.
C2_AllowedStagesOnly ==
    OnCase =>
        /\ last.stage_before \notin AllowedStages(last.op) =>
               /\ last.result = "StateTransitionError"
               /\ last.writes = << >>
        /\ (last.stage_before \in AllowedStages(last.op)
            /\ last.result = "StateTransitionError") =>
               /\ last.op = "approve"
               /\ ReviewStatus(cases[last.case_id]) # "pass"

\* run_assemble has proceeded from RETRIEVED, and a handler called after
\* its stages has raised
C2_CalledOutOfStage ==
    /\ last.op = "run_retrieve"
    /\ last.stage_before = "ASSEMBLED"
    /\ last.result = "StateTransitionError"
    /\ Len(cases[last.case_id].artifacts["RETRIEVED"]) = 1

(***************************************************************************)
(* C3: a case reaches APPROVED only through approve called at REVIEWED     *)
(* when the latest REVIEWED artifact has status "pass"; when that status   *)
(* is not "pass", approve raises StateTransitionError and the stage stays  *)
(* REVIEWED.                                                               *)
(***************************************************************************)
C3_Step ==
    \A c \in DOMAIN cases' :
        /\ (/\ cases'[c].stage = "APPROVED"
            /\ (c \in DOMAIN cases => cases[c].stage # "APPROVED")) =>
               /\ c \in DOMAIN cases
               /\ last'.op = "approve"
               /\ last'.case_id = c
               /\ cases[c].stage = "REVIEWED"
               /\ ReviewStatus(cases[c]) = "pass"
        /\ (/\ c \in DOMAIN cases
            /\ last'.op = "approve"
            /\ last'.case_id = c
            /\ cases[c].stage = "REVIEWED"
            /\ ReviewStatus(cases[c]) # "pass") =>
               /\ last'.result = "StateTransitionError"
               /\ cases'[c].stage = "REVIEWED"

C3_ApprovedOnlyOnPass == [][C3_Step]_vars

\* a case was approved on its second review, after a first one that failed
C3_ApprovedAfterFailedReview ==
    \E c \in Registered :
        /\ cases[c].stage = "APPROVED"
        /\ Len(cases[c].artifacts["REVIEWED"]) = 2
        /\ cases[c].artifacts["REVIEWED"][1].payload.review_report.status
               = "fail"
        /\ last.op = "approve"
        /\ last.result = "ok"

(***************************************************************************)
(* C4: APPROVED is terminal: once case.stage is APPROVED every later stage *)
(* operation on the case raises, and the stage and all artifact lists of   *)
(* the case stay unchanged forever.                                        *)
(***************************************************************************)
C4_Step ==
    \A c \in DOMAIN cases :
        cases[c].stage = "APPROVED" =>
            /\ c \in DOMAIN cases'
            /\ cases'[c].stage = "APPROVED"
            /\ cases'[c].artifacts = cases[c].artifacts
            /\ (last'.case_id = c /\ last'.op \in StageOps) =>
                   last'.result # "ok"

C4_ApprovedIsTerminal == [][C4_Step]_vars

\* run_plan was called on an approved case and raised
C4_CalledAfterApproval ==
    /\ last.op = "run_plan"
    /\ last.stage_before = "APPROVED"
    /\ last.result = "StateTransitionError"

(***************************************************************************)
(* C5: every artifact list is append-only with versions 1, 2, ..., n in    *)
(* list order: a re-run appends an artifact with version = previous latest *)
(* version + 1 (1 if none), and no operation changes the payload or        *)
(* version of, or removes, an artifact appended earlier.                   *)
(***************************************************************************)
C5_Step ==
    /\ \A c \in DOMAIN cases :
           /\ c \in DOMAIN cases'
           /\ \A s \in WorkflowStage :
                  IsPrefix(cases[c].artifacts[s], cases'[c].artifacts[s])
    /\ \A c \in DOMAIN cases' :
           \A s \in WorkflowStage :
               \A i \in 1..Len(cases'[c].artifacts[s]) :
                   /\ cases'[c].artifacts[s][i].version = i
                   /\ cases'[c].artifacts[s][i].stage = s

C5_ArtifactsAppendOnly == [][C5_Step]_vars

\* run_plan was re-run with another plan: two versions with different
\* payloads
C5_PlanRerun ==
    \E c \in Registered :
        /\ last.op = "run_plan"
        /\ last.stage_before = "PLAN_READY"
        /\ last.result = "ok"
        /\ Len(cases[c].artifacts["PLAN_READY"]) = 2
        /\ cases[c].artifacts["PLAN_READY"][1].payload
               # cases[c].artifacts["PLAN_READY"][2].payload

(***************************************************************************)
(* C6: no partial artifact is persisted on failure: whenever a stage       *)
(* operation raises StateTransitionError or ValidationError, the stage and *)
(* every artifact list of the case are as they were before the call.       *)
(***************************************************************************)
C6_Step ==
    \A c \in DOMAIN cases :
        (/\ last'.case_id = c
         /\ last'.op \in StageOps
         /\ last'.result \in {"StateTransitionError", "ValidationError"}) =>
            /\ cases'[c].stage = cases[c].stage
            /\ cases'[c].artifacts = cases[c].artifacts

C6_NothingPersistedOnFailure == [][C6_Step]_vars

(***************************************************************************)
(* C7: for every intake with the required fields, create_case followed by  *)
(* get_case returns the case at stage EXTRACTED with exactly one EXTRACTED *)
(* artifact (version 1) and never raises, whatever the completion service  *)
(* does.                                                                   *)
(***************************************************************************)
C7_CreateNeverRaises ==
    (last.op = "create_case" /\ last.stage_before = "INIT") =>
        /\ last.result = "ok"
        /\ last.case_id \in Registered
        /\ cases[last.case_id].stage = "EXTRACTED"
        /\ Len(cases[last.case_id].artifacts["EXTRACTED"]) = 1
        /\ cases[last.case_id].artifacts["EXTRACTED"][1].version = 1

(***************************************************************************)
(* C8: create_case with an intake in which a required field is missing or  *)
(* empty raises ValidationError and leaves the registry unchanged: no case *)
(* is registered and the completion service is not called.                 *)
(***************************************************************************)
C8_Step ==
    /\ (last'.op = "create_case" /\ last'.result = "ValidationError") =>
           /\ cases' = cases
           /\ last'.llm_calls = 0
    /\ (last'.op = "create_case" /\ last'.result # "ValidationError") =>
           /\ last'.case_id \in DOMAIN cases'
           /\ \A field \in RequiredIntakeFields :
                  cases'[last'.case_id].intake[field]
                      \notin {NoneV, Str("")}

C8_InvalidIntakeRejected == [][C8_Step]_vars

\* an invalid intake was rejected by a service that holds a case
C8_RejectedWithCaseRegistered ==
    /\ last.op = "create_case"
    /\ last.result = "ValidationError"
    /\ Registered # {}
    /\ \A c \in Registered : cases[c].stage = "PLAN_READY"

(***************************************************************************)
(* C9: after a case is created its intake is never modified, except that   *)
(* structured_context is written exactly once over the life of the case,   *)
(* during extraction, and never rewritten.                                 *)
(***************************************************************************)
C9_OriginalStep ==
    \A c \in DOMAIN cases :
        /\ cases'[c].intake = cases[c].intake
        /\ cases[c].structured_context # NoCtx =>
               cases'[c].structured_context = cases[c].structured_context

C9_ContextWrittenOnce == [][C9_OriginalStep]_vars

\* C9 as amended: the intake fields the client gave are never modified;
\* structured_context is written by extraction only, which runs while the
\* case is at INIT or EXTRACTED, and every extraction that returns replaces
\* it by the context of the EXTRACTED artifact it appends.
C9_AmendedStep ==
    /\ \A c \in DOMAIN cases :
           /\ cases'[c].intake = cases[c].intake
           /\ cases'[c].structured_context # cases[c].structured_context =>
                  /\ last'.case_id = c
                  /\ last'.op \in {"run_extract", "run_plan"}
                  /\ cases[c].stage \in {"INIT", "EXTRACTED"}
                  /\ Len(cases'[c].artifacts["EXTRACTED"])
                         = Len(cases[c].artifacts["EXTRACTED"]) + 1
    /\ \A c \in DOMAIN cases' :
           IF HasArtifact(cases'[c], "EXTRACTED")
           THEN cases'[c].structured_context =
                    get_latest_artifact(cases'[c], "EXTRACTED").payload
                        .extracted_context
           ELSE cases'[c].structured_context = NoCtx

C9_ContextWrittenByExtractionOnly == [][C9_AmendedStep]_vars

\* run_extract was re-run and replaced the context by a different one
C9_ContextRewritten ==
    \E c \in Registered :
        /\ last.op = "run_extract"
        /\ last.stage_before = "EXTRACTED"
        /\ Len(cases[c].artifacts["EXTRACTED"]) = 2
        /\ cases[c].structured_context
               # cases[c].artifacts["EXTRACTED"][1].payload.extracted_context
        /\ cases[c].intake = ValidIntake

(***************************************************************************)
(* C10: every stage operation that succeeds appends a new artifact to the  *)
(* list of the stage it completes and then sets case.stage to that stage,  *)
(* for each of EXTRACTED, PLAN_READY, RETRIEVED, RERANKED, ASSEMBLED,      *)
(* DRAFTED, VALIDATED, REVIEWED and APPROVED.                              *)
(***************************************************************************)
C10_OriginalStep ==
    \A c \in DOMAIN cases :
        (last'.case_id = c /\ last'.op \in StageOps /\ last'.result = "ok") =>
            LET completed == cases'[c].stage
            IN  Len(cases'[c].artifacts[completed])
                    = Len(cases[c].artifacts[completed]) + 1

C10_ArtifactForEveryStage == [][C10_OriginalStep]_vars

\* C10 as amended: a stage operation that succeeds appends exactly one
\* artifact to each list of CompletedStages (run_plan also to EXTRACTED
\* when it had to extract first), appends to no other list, and leaves the
\* case at EndStage; approve appends nothing, so the APPROVED list stays
\* empty, and no operation leaves the case at RERANKED.
C10_AmendedStep ==
    /\ \A c \in DOMAIN cases :
           (last'.case_id = c /\ last'.op \in StageOps
            /\ last'.result = "ok") =>
               LET appended ==
                       CompletedStages(last'.op)
                       \cup (IF last'.op = "run_plan"
                                /\ cases[c].structured_context = NoCtx
                             THEN {"EXTRACTED"} ELSE {})
               IN  /\ \A s \in WorkflowStage :
                          Len(cases'[c].artifacts[s])
                              = Len(cases[c].artifacts[s])
                                + (IF s \in appended THEN 1 ELSE 0)
                   /\ cases'[c].stage = EndStage(last'.op)
    /\ \A c \in DOMAIN cases' :
           /\ cases'[c].stage # "RERANKED"
           /\ cases'[c].artifacts["APPROVED"] = << >>

C10_ArtifactsOfCompletedStages == [][C10_AmendedStep]_vars

\* approve succeeded and left no APPROVED artifact
C10_ApprovedWithoutArtifact ==
    \E c \in Registered :
        /\ last.op = "approve"
        /\ last.result = "ok"
        /\ cases[c].stage = "APPROVED"
        /\ cases[c].artifacts["APPROVED"] = << >>
        /\ Len(cases[c].artifacts["RERANKED"]) = 1
        /\ Len(cases[c].artifacts["ASSEMBLED"]) = 1

(***************************************************************************)
(* Retrieval with relaxation on its own: _retrieve_with_fallback called    *)
(* with any fallback policy and any answers of retrieve_section_clauses    *)
(***************************************************************************)
MaxRetries == 2      \* largest fallback_policy.max_retries
MaxMinClauses == 3   \* largest fallback_policy.min_clauses

\* relaxation_order lists a plan can give a section
RelaxationOrders ==
    { << >>, <<"section">>, <<"tags">>, <<"tags", "industry">>,
      <<"section", "tags">> }

RetrievePolicies ==
    { [min_clauses |-> k, relaxation_order |-> order, max_retries |-> r] :
        k \in 1..MaxMinClauses, order \in RelaxationOrders,
        r \in 0..MaxRetries }

\* candidate lists retrieve_section_clauses can return for one query
RetrievedLists == { << >>, <<CandLow>>, <<CandLow, CandHigh>> }

\* the structured context of a case whose extraction fell back to intake
FallbackContext == _extract_structured_context(ValidIntake, LlmRaise)

\* the Scope section of a plan, with the given fallback policy
PolicySection(policy) ==
    _normalize_section_definition(
        [RawScope EXCEPT !.fallback_policy = policy],
        ValidIntake, FallbackContext)

\* one answer per query the loop can make
PolicyAnswers(policy) == [1..(policy.max_retries + 1) -> RetrievedLists]

retrieve_with_fallback(policy, answers) ==
    LET section_def == PolicySection(policy)
        out == _retrieve_with_fallback(section_def, FallbackContext, 8,
                                       answers)
    IN  /\ last = NoCall
        /\ last' = [ op          |-> "_retrieve_with_fallback",
                    case_id     |-> "",
                    stage_before |-> "",
                    result      |-> IF out.error = "none" THEN "ok"
                                    ELSE out.error,
                    writes      |-> << >>,
                    llm_calls   |-> 0,
                    policy      |-> policy,
                    answers     |-> answers,
                    calls       |-> out.calls,
                    clauses     |-> out.clauses,
                    diagnostics |-> out.diagnostics ]
        /\ UNCHANGED cases

NextRetrieve ==
    \E policy \in RetrievePolicies :
        \E answers \in PolicyAnswers(policy) :
            retrieve_with_fallback(policy, answers)

SpecRetrieve == Init /\ [][NextRetrieve]_vars

RECURSIVE SumReturned(_, _)
SumReturned(attempts, i) ==
    IF i > Len(attempts) THEN 0
    ELSE attempts[i].returned_count + SumReturned(attempts, i + 1)

\* every answer the retrieval service can give has fewer than min_clauses
\* candidates
UnderRetrieved ==
    /\ last.op = "_retrieve_with_fallback"
    /\ \A i \in DOMAIN last.answers :
           Len(last.answers[i]) < last.policy.min_clauses

(***************************************************************************)
(* C11: for a section whose retrieval calls all return fewer than          *)
(* min_clauses candidates, the loop makes at most max_retries + 1 calls,   *)
(* its diagnostics hold exactly one attempt entry per call made, and the   *)
(* candidates it returns (and final_count) are those of the last call      *)
(* only, so final_count never exceeds the sum of the attempts' returns.    *)
(***************************************************************************)
C11_NoDoubleCounting ==
    UnderRetrieved =>
        /\ last.result = "ok"
        /\ last.calls <= last.policy.max_retries + 1
        /\ Len(last.diagnostics.attempts) = last.calls
        /\ \A i \in 1..last.calls :
               /\ last.diagnostics.attempts[i].attempt = i
               /\ last.diagnostics.attempts[i].returned_count
                      = Len(last.answers[i])
        /\ last.calls >= 1
        /\ last.clauses = last.answers[last.calls]
        /\ last.diagnostics.final_count = Len(last.clauses)
        /\ last.diagnostics.final_count
               <= SumReturned(last.diagnostics.attempts, 1)

\* C11 where the loop returns: the statement of C11 for every policy whose
\* relaxation_order is not empty or whose max_retries is 0
C11_NoDoubleCountingWhenReturned ==
    (UnderRetrieved
     /\ (last.policy.relaxation_order # << >> \/ last.policy.max_retries = 0))
        => C11_NoDoubleCounting

\* the loop spent its whole budget on answers that stayed under min_clauses
C11_BudgetSpent ==
    /\ UnderRetrieved
    /\ last.result = "ok"
    /\ last.policy.max_retries = MaxRetries
    /\ last.calls = MaxRetries + 1
    /\ Len(last.answers[1]) = 2
    /\ Len(last.clauses) = 1

(***************************************************************************)
(* Properties of the drafted sections of a case (specification Spec)       *)
(***************************************************************************)
\* payloads of the latest artifacts a drafted case was written from
LatestPayload(sow_case, stage) == get_latest_artifact(sow_case, stage).payload

Drafted(sow_case) == HasArtifact(sow_case, "DRAFTED")

DraftedSections(sow_case) ==
    LatestPayload(sow_case, "DRAFTED").draft.structured_sections

\* write/validate attempts recorded for the i-th drafted section
DraftedAttempts(sow_case, i) ==
    LatestPayload(sow_case, "DRAFTED").diagnostics.sections[i].validation
        .attempts

PlannedSection(sow_case, name) ==
    SectionDefs(LatestPayload(sow_case, "PLAN_READY").plan.sections)[name]

\* every retrieval attempt run_retrieve made for the section returned no
\* candidate
NothingRetrieved(sow_case, name) ==
    LET diagnostics == LatestPayload(sow_case, "RETRIEVED").diagnostics
    IN  /\ name \in DOMAIN diagnostics
        /\ diagnostics[name].final_count = 0
        /\ \A i \in 1..Len(diagnostics[name].attempts) :
               diagnostics[name].attempts[i].returned_count = 0

(***************************************************************************)
(* C12: if the retrieval service returns zero candidates for a plan        *)
(* section under every filter relaxation, the draft still holds that       *)
(* section, its output is the TBD fallback with a non-empty action_items   *)
(* list, and its write/validate diagnostics hold exactly max_retries + 1   *)
(* attempts, all marked failed.                                            *)
(***************************************************************************)
C12_ZeroCandidatesGiveTbd ==
    \A c \in Registered :
        Drafted(cases[c]) =>
            \A i \in 1..Len(DraftedSections(cases[c])) :
                LET section == DraftedSections(cases[c])[i]
                    section_def == PlannedSection(cases[c], section.name)
                    attempts == DraftedAttempts(cases[c], i)
                IN  NothingRetrieved(cases[c], section.name) =>
                        /\ section.structured_content
                               = _build_tbd_output(section_def)
                        /\ section.structured_content["action_items"].v # {}
                        /\ Len(attempts)
                               = section_def.fallback_policy.max_retries + 1
                        /\ \A j \in 1..Len(attempts) : ~attempts[j].pass

\* the i-th drafted section holds the TBD fallback: every write/validate
\* attempt of the section failed and the fallback output was emitted
TbdEmitted(sow_case, i) ==
    LET section == DraftedSections(sow_case)[i]
        attempts == DraftedAttempts(sow_case, i)
    IN  /\ section.structured_content
               = _build_tbd_output(PlannedSection(sow_case, section.name))
        /\ \A j \in 1..Len(attempts) : ~attempts[j].pass

\* run_write has just written the DRAFTED and the VALIDATED artifact of c
WroteDraft(c) ==
    /\ last.op = "run_write"
    /\ last.case_id = c
    /\ last.writes = <<"DRAFTED", "VALIDATED">>

ValidationReport(sow_case) ==
    LatestPayload(sow_case, "VALIDATED").validation_report

(***************************************************************************)
(* C13: whenever run_write emits the TBD fallback output for a section     *)
(* (all its write/validate attempts failed), the VALIDATED artifact that   *)
(* same run_write produces reports status "fail" and holds a finding for   *)
(* that section.                                                           *)
(***************************************************************************)
C13_TbdNeverSuccess ==
    \A c \in Registered :
        WroteDraft(c) =>
            \A i \in 1..Len(DraftedSections(cases[c])) :
                TbdEmitted(cases[c], i) =>
                    LET report == ValidationReport(cases[c])
                    IN  /\ report.status = "fail"
                        /\ \E k \in 1..Len(report.findings) :
                               report.findings[k].section
                                   = DraftedSections(cases[c])[i].name

(***************************************************************************)
(* validate_section_output on its own (specification SpecValidate): one    *)
(* call on a section definition, a section output and a structured         *)
(* context drawn from small sets                                           *)
(***************************************************************************)
ValidatedCategories == {"clause", "technical"}

ValidatedRequired ==
    { << >>, <<"overview">>, <<"overview", "architecture_pattern">> }

ValidatedMinContent ==
    { << >>,
      <<[field |-> "overview", min_words |-> 2, min_items |-> 0]>>,
      <<[field |-> "overview", min_words |-> 2, min_items |-> 0],
        [field |-> "core_components", min_words |-> 0, min_items |-> 2]>>,
      <<[field |-> "core_components", min_words |-> 2, min_items |-> 0]>>,
      <<[field |-> "data_flow", min_words |-> 2, min_items |-> 0]>> }

ValidatedSections ==
    { [name |-> "Architecture", category |-> category,
       required_fields |-> required, min_content |-> rules] :
          category \in ValidatedCategories, required \in ValidatedRequired,
          rules \in ValidatedMinContent }

\* section outputs: a field is null, empty, short, long enough, names
\* services, or (architecture_pattern) is a list instead of a string
ValidatedOutputs ==
    { [overview |-> overview, architecture_pattern |-> pattern,
       core_components |-> components] :
          overview \in { NoneV, Text(<< >>), Text(<<"landing">>),
                         Text(<<"landing", "OCI Vision", "Data Science">>) },
          pattern \in { NoneV, Text(<<"Hub-Spoke">>), Text(<<"mesh">>),
                        Lst({"Hub-Spoke"}) },
          components \in { Lst({}), Lst({"load balancer"}),
                           Lst({"load balancer", "Object Storage"}) } }

ValidatedContexts ==
    { [architecture_pattern |-> pattern, allowed_services |-> Lst(allowed)] :
          pattern \in { NoneV, Str("hub-spoke") },
          allowed \in { {}, {"OCI Vision"},
                        {"OCI Vision", "Object Storage"} } }

validate(section_def, section_json, extracted_context) ==
    LET out == validate_section_output(section_def, section_json,
                                       extracted_context)
    IN  /\ last = NoCall
        /\ last' = [ op |-> "validate_section_output", case_id |-> "",
                     stage_before |-> "",
                     result |-> IF out.error = "none" THEN "ok"
                                ELSE out.error,
                     writes |-> << >>, llm_calls |-> 0,
                     section_def |-> section_def,
                     section_json |-> section_json,
                     extracted_context |-> extracted_context,
                     ok |-> out.ok, reasons |-> out.reasons ]
        /\ UNCHANGED cases

NextValidate ==
    \E section_def \in ValidatedSections, section_json \in ValidatedOutputs,
       extracted_context \in ValidatedContexts :
        validate(section_def, section_json, extracted_context)

SpecValidate == Init /\ [][NextValidate]_vars

\* the rules of the validator an output violates, as (rule, field) pairs
MissingOrEmpty(section_json, field) ==
    \/ field \notin DOMAIN section_json
    \/ section_json[field] \in {NoneV, Str(""), Text(<< >>), Lst({})}

WordCount(value) == IF value.t = "text" THEN Len(value.v) ELSE 1

ViolatedRequired(section_def, section_json) ==
    { [rule |-> "required", field |-> section_def.required_fields[i]] :
        i \in { j \in 1..Len(section_def.required_fields) :
                  MissingOrEmpty(section_json,
                                 section_def.required_fields[j]) } }

ViolatedMinContent(section_def, section_json) ==
    LET rules == section_def.min_content
        held(i) == rules[i].field \in DOMAIN section_json
        value(i) == section_json[rules[i].field]
    IN  { [rule |-> "min_words", field |-> rules[i].field] :
            i \in { j \in 1..Len(rules) :
                      /\ rules[j].min_words > 0 /\ held(j)
                      /\ value(j).t \in {"str", "text"}
                      /\ value(j) # Str("")
                      /\ WordCount(value(j)) < rules[j].min_words } }
        \cup
        { [rule |-> "min_words", field |-> rules[i].field] :
            i \in { j \in 1..Len(rules) :
                      /\ rules[j].min_words > 0 /\ held(j)
                      /\ value(j) \in {Str(""), Text(<< >>)} } }
        \cup
        { [rule |-> "min_items", field |-> rules[i].field] :
            i \in { j \in 1..Len(rules) :
                      /\ rules[j].min_items > 0 /\ held(j)
                      /\ value(j).t = "list"
                      /\ Cardinality(value(j).v) < rules[j].min_items } }

NamedServices(section_json) ==
    UNION { IF section_json[key].t = "text"
            THEN { section_json[key].v[i] :
                     i \in 1..Len(section_json[key].v) } \cap ServiceNames
            ELSE IF section_json[key].t = "list"
            THEN section_json[key].v \cap ServiceNames
            ELSE {} : key \in DOMAIN section_json }

ViolatedTechnical(section_def, section_json, extracted_context) ==
    IF section_def.category # "technical" THEN {}
    ELSE LET expected == extracted_context["architecture_pattern"]
             actual == IF "architecture_pattern" \in DOMAIN section_json
                       THEN section_json["architecture_pattern"] ELSE NoneV
             allowed == extracted_context["allowed_services"].v
         IN  (IF /\ Truthy(expected) /\ Truthy(actual)
                 /\ IsStr(expected) /\ IsStr(actual)
                 /\ LowerWords(expected) # LowerWords(actual)
              THEN {[rule |-> "architecture_pattern",
                     field |-> "architecture_pattern"]}
              ELSE {})
             \cup
             { [rule |-> "service", field |-> service] :
                 service \in { x \in NamedServices(section_json) :
                                 allowed # {} /\ x \notin allowed } }

ViolatedRules(section_def, section_json, extracted_context) ==
    ViolatedRequired(section_def, section_json)
    \cup ViolatedMinContent(section_def, section_json)
    \cup ViolatedTechnical(section_def, section_json, extracted_context)

RuleRank(rule) ==
    CASE rule = "required"             -> 1
      [] rule \in {"min_words", "min_items"} -> 2
      [] rule = "architecture_pattern" -> 3
      [] rule = "service"              -> 4

\* reasons lists every violated rule once, nothing else, in rule order
Exhaustive(reasons, violated) ==
    /\ \A r \in violated :
           Cardinality({ i \in 1..Len(reasons) : reasons[i] = r }) = 1
    /\ \A i \in 1..Len(reasons) : reasons[i] \in violated
    /\ \A i, j \in 1..Len(reasons) :
           i < j => RuleRank(reasons[i].rule) <= RuleRank(reasons[j].rule)

ValidatorAnswer ==
    /\ (last.ok <=> last.reasons = << >>)
    /\ last.reasons = validate_section_output(last.section_def,
                          last.section_json, last.extracted_context).reasons
    /\ Exhaustive(last.reasons,
                  ViolatedRules(last.section_def, last.section_json,
                                last.extracted_context))

(***************************************************************************)
(* C14: validate_section_output is deterministic and exhaustive: for       *)
(* every (section definition, output, context) it returns (ok, reasons),   *)
(* the same for the same triple, ok is true exactly when reasons is        *)
(* empty, and reasons holds one entry for every violated rule (required    *)
(* fields, min-content rules, then for technical sections the              *)
(* architecture mismatch and each disallowed service) in that rule order.  *)
(***************************************************************************)
C14_ValidatorExhaustive ==
    last.op = "validate_section_output" =>
        /\ last.result = "ok"
        /\ ValidatorAnswer

\* the same property of the calls that return
C14_ValidatorExhaustiveWhenReturned ==
    (last.op = "validate_section_output" /\ last.result = "ok") =>
        ValidatorAnswer

\* a returned answer with reasons of more than one rule
C14_SeveralReasons ==
    /\ last.op = "validate_section_output"
    /\ last.result = "ok"
    /\ \E i, j \in 1..Len(last.reasons) :
           RuleRank(last.reasons[i].rule) < RuleRank(last.reasons[j].rule)

(***************************************************************************)
(* Candidate normalization on its own (specification SpecNormalize): one   *)
(* call of KnowledgeAccessService.retrieve_section_clauses on a response   *)
(* of the retrieval service (rag_service.chat)                             *)
(***************************************************************************)
MIN_CANDIDATE_TEXT_LEN == 40

\* a text: front_matter says whether it starts with a "---" block and has
\* surplus whitespace, body names what is left once both are stripped
SourceText(front_matter, body) ==
    [t |-> "doc", front_matter |-> front_matter, body |-> body]

NoText == Str("")

\* len() of a stripped body, in characters
BodyChars(body) ==
    CASE body = "short"    -> 12
      [] body = "clause A" -> 60
      [] body = "clause B" -> 45

TextLen(text) == IF text = NoText THEN 0 ELSE BodyChars(text.body)

_strip_front_matter(text) ==
    IF text = NoText THEN NoText ELSE SourceText(FALSE, text.body)

\* a source_location object with its url
Loc(url) == [t |-> "dict", url |-> url]

Citation(chunk_id, source_location, source_text, score) ==
    [ chunk_id |-> chunk_id, source_location |-> source_location,
      source_text |-> source_text, score |-> score ]

\* citation objects: with or without chunk id, with a source_location
\* object, none, or a bare string in its place, with or without source
\* text, with or without score (in hundredths)
Citations ==
    { Citation(chunk_id, source_location, source_text, score) :
        chunk_id \in { NoneV, Str("c1") },
        source_location \in { NoneV, Loc("oci://kb/u1"), Str("oci://kb/u1") },
        source_text \in { NoneV, SourceText(FALSE, "short"),
                          SourceText(TRUE, "short"),
                          SourceText(TRUE, "clause A"),
                          SourceText(FALSE, "clause B") },
        score \in { NoneV, Num(90) } }

\* no citation, one, or a pair of them
CitationLists ==
    { << >> } \cup { <<first>> : first \in Citations }
    \cup { <<first, second>> : first \in Citations, second \in Citations }

\* a candidate as retrieve_section_clauses returns it
Clause(chunk_id, source_uri, score, clause_text) ==
    [ chunk_id |-> chunk_id, source_uri |-> source_uri, score |-> score,
      clause_text |-> clause_text ]

\* the answer text is JSON of the shape {"candidates": [...]}
AnswerJson(candidates) == [t |-> "json", candidates |-> candidates]

StructuredA ==
    Clause(<<"chunk", "a1">>, "oci://kb/a1", 80, SourceText(FALSE, "clause A"))

StructuredB ==
    Clause(<<"chunk", "b1">>, "oci://kb/b1", 70, SourceText(FALSE, "clause B"))

Answers == { NoText, AnswerJson(<<StructuredA, StructuredB>>) }

\* what rag_service.chat does: it raises, returns None, or returns a dict
ChatRaise == [t |-> "raise"]

ChatResponse(answer, citations) ==
    [t |-> "dict", answer |-> answer, citations |-> citations]

ChatResponses ==
    { ChatRaise, NoneV }
    \cup { ChatResponse(answer, citations) :
             answer \in Answers, citations \in CitationLists }

\* answers to the relaxed retry prompt
RetryResponses ==
    { ChatRaise,
      ChatResponse(NoText,
          <<Citation(Str("c2"), NoneV, SourceText(FALSE, "clause B"),
                     Num(60))>>) }

\* text of the chunk object the citation's source_uri resolves to; NoText
\* when there is no Object Storage client or the fetch fails
StoredTexts == { NoText, SourceText(FALSE, "clause A") }

TopKs == { 1, 8 }

Filled(x) == x \notin { NoneV, Str(""), Num(0) }

IndexName(idx) == <<"1", "2", "3">>[idx]

source_uri_of(citation) ==
    IF citation.source_location.t = "dict"
    THEN citation.source_location.url ELSE ""

\* chunk_id or sha256(source_uri)[:16] or "citation-<idx>"
clause_id_of(citation, idx) ==
    IF Filled(citation.chunk_id) THEN <<"chunk", citation.chunk_id.v>>
    ELSE IF source_uri_of(citation) # ""
    THEN <<"sha256", source_uri_of(citation)>>
    ELSE <<"citation", IndexName(idx)>>

\* source_text, else the text fetched from Object Storage
citation_text(citation, stored) ==
    IF Filled(citation.source_text) THEN citation.source_text
    ELSE IF source_uri_of(citation) # "" THEN stored
    ELSE NoText

citation_candidate(citation, idx, stored) ==
    [ clause_id |-> clause_id_of(citation, idx),
      source_uri |-> source_uri_of(citation),
      clause_text |-> _strip_front_matter(citation_text(citation, stored)),
      score |-> IF Filled(citation.score) THEN citation.score ELSE NoneV,
      retrieval_source |-> IF Filled(citation.source_text)
                           THEN "citation_source_text"
                           ELSE "object_storage_fetch" ]

\* a source_location that is a non-empty str has no get()
LocationRaises(citation) ==
    Filled(citation.source_location) /\ citation.source_location.t # "dict"

RECURSIVE CitationLoop(_, _, _, _, _)
CitationLoop(citations, idx, seen, candidates, stored) ==
    IF idx > Len(citations)
    THEN [error |-> "none", candidates |-> candidates]
    ELSE IF LocationRaises(citations[idx])
    THEN [error |-> "AttributeError", candidates |-> << >>]
    ELSE IF <<clause_id_of(citations[idx], idx),
              source_uri_of(citations[idx])>> \in seen
    THEN CitationLoop(citations, idx + 1, seen, candidates, stored)
    ELSE IF TextLen(citation_text(citations[idx], stored))
               < MIN_CANDIDATE_TEXT_LEN
    THEN CitationLoop(citations, idx + 1, seen, candidates, stored)
    ELSE CitationLoop(citations, idx + 1,
             seen \cup {<<clause_id_of(citations[idx], idx),
                          source_uri_of(citations[idx])>>},
             Append(candidates,
                    citation_candidate(citations[idx], idx, stored)),
             stored)

\* only the citations of the response are read, never its answer
extract_candidates_from_agent_response(resp, stored) ==
    IF resp = NoneV THEN [error |-> "none", candidates |-> << >>]
    ELSE CitationLoop(resp.citations, 1, {}, << >>, stored)

\* the relaxed retry: whatever it raises is caught and the candidates stay
\* empty
RelaxedRetry(retry_response, stored) ==
    IF retry_response.t # "dict" THEN << >>
    ELSE LET out == extract_candidates_from_agent_response(retry_response,
                                                           stored)
         IN  IF out.error # "none" THEN << >> ELSE out.candidates

\* candidates[:top_k], each with float(candidate.get("score", 0.5)): the
\* key is always there and holds None for a citation without score
NormalizedClauses(candidates, top_k) ==
    IF \E i \in 1..Len(Take(candidates, top_k)) : candidates[i].score = NoneV
    THEN [error |-> "TypeError", clauses |-> << >>]
    ELSE [error |-> "none",
          clauses |->
              [i \in 1..Len(Take(candidates, top_k)) |->
                  Clause(candidates[i].clause_id,
                         IF candidates[i].source_uri = ""
                         THEN "unknown://source"
                         ELSE candidates[i].source_uri,
                         candidates[i].score.v,
                         candidates[i].clause_text)]]

FirstCandidates(first, retry_response, allow_relaxed_retry, stored, top_k) ==
    IF first.error # "none"
    THEN [error |-> first.error, clauses |-> << >>]
    ELSE IF first.candidates = << >> /\ allow_relaxed_retry
    THEN NormalizedClauses(RelaxedRetry(retry_response, stored), top_k)
    ELSE NormalizedClauses(first.candidates, top_k)

retrieve_section_clauses_call(response, retry_response, allow_relaxed_retry, stored, top_k) ==
    IF response = ChatRaise THEN [error |-> "none", clauses |-> << >>]
    ELSE IF response = NoneV
    THEN [error |-> "AttributeError", clauses |-> << >>]
    ELSE FirstCandidates(
             extract_candidates_from_agent_response(response, stored),
             retry_response, allow_relaxed_retry, stored, top_k)

retrieve_section_clauses(response, retry_response, allow_relaxed_retry, stored, top_k) ==
    LET out == retrieve_section_clauses_call(response, retry_response,
                   allow_relaxed_retry, stored, top_k)
    IN  /\ last = NoCall
        /\ last' = [ op |-> "retrieve_section_clauses", case_id |-> "",
                     stage_before |-> "",
                     result |-> IF out.error = "none" THEN "ok"
                                ELSE out.error,
                     writes |-> << >>, llm_calls |-> 0,
                     response |-> response,
                     retry_response |-> retry_response,
                     allow_relaxed_retry |-> allow_relaxed_retry,
                     stored |-> stored, top_k |-> top_k,
                     clauses |-> out.clauses ]
        /\ UNCHANGED cases

\* the retry answer is read only by a call that allows the relaxed retry
RetryResponsesRead(allow_relaxed_retry) ==
    IF allow_relaxed_retry THEN RetryResponses ELSE {ChatRaise}

\* one call per behaviour
NextNormalize ==
    /\ last = NoCall
    /\ \E response \in ChatResponses, allow_relaxed_retry \in BOOLEAN,
          stored \in StoredTexts, top_k \in TopKs :
           \E retry_response \in RetryResponsesRead(allow_relaxed_retry) :
               retrieve_section_clauses(response, retry_response,
                                        allow_relaxed_retry, stored, top_k)

SpecNormalize == Init /\ [][NextNormalize]_vars

Normalized == last.op = "retrieve_section_clauses"

(***************************************************************************)
(* C15: candidate normalization never raises: for every response shape of  *)
(* the retrieval service (citations with or without score, source          *)
(* location or text, malformed or missing fields) retrieve_section_clauses *)
(* returns a list of candidates, fewer or none rather than raising.        *)
(***************************************************************************)
C15_NormalizationNeverRaises ==
    Normalized => last.result = "ok"

\* the response's answer is JSON {"candidates": [c1, ..., cn]} and top_k
\* does not cut the list
StructuredAnswer ==
    /\ Normalized
    /\ last.response.t = "dict"
    /\ last.response.answer.t = "json"
    /\ Len(last.response.answer.candidates) <= last.top_k

(***************************************************************************)
(* C16: when the answer of the retrieval response is JSON of the shape     *)
(* {"candidates": [c1, ..., cn]}, the normalizer used by retrieval returns *)
(* exactly those n candidates, in order, with chunk id, source locator,    *)
(* score and clause text unchanged.                                        *)
(***************************************************************************)
C16_StructuredCandidatesKept ==
    StructuredAnswer =>
        /\ last.result = "ok"
        /\ last.clauses = last.response.answer.candidates

\* the response carries only citations: two of them, with two distinct
\* source texts, and top_k does not cut the list
TwoCitedTexts ==
    /\ Normalized
    /\ last.response.t = "dict"
    /\ last.response.answer = NoText
    /\ Len(last.response.citations) = 2
    /\ \A i \in 1..2 : Filled(last.response.citations[i].source_text)
    /\ last.response.citations[1].source_text
           # last.response.citations[2].source_text
    /\ last.top_k >= 2

TwoClausesOfCitations ==
    /\ last.result = "ok"
    /\ Len(last.clauses) = 2
    /\ \A i \in 1..2 :
           last.clauses[i].clause_text
               = _strip_front_matter(last.response.citations[i].source_text)

(***************************************************************************)
(* C17: when the retrieval response carries only citations, two of them    *)
(* with two distinct source texts, the normalizer returns exactly two      *)
(* candidates whose clause texts are those two source texts after          *)
(* whitespace/front-matter normalization, whatever the citations'          *)
(* identifiers, source locators and text lengths.                          *)
(***************************************************************************)
C17_TwoCitationsTwoCandidates ==
    TwoCitedTexts => TwoClausesOfCitations

\* the same for two citations that have a score, a well-formed or no
\* source_location, texts of at least MIN_CANDIDATE_TEXT_LEN characters and
\* different (identifier, source locator) pairs
C17_TwoCitationsWhenKept ==
    ( /\ TwoCitedTexts
      /\ \A i \in 1..2 :
             /\ Filled(last.response.citations[i].score)
             /\ ~LocationRaises(last.response.citations[i])
             /\ TextLen(last.response.citations[i].source_text)
                    >= MIN_CANDIDATE_TEXT_LEN
      /\ <<clause_id_of(last.response.citations[1], 1),
           source_uri_of(last.response.citations[1])>>
             # <<clause_id_of(last.response.citations[2], 2),
                 source_uri_of(last.response.citations[2])>> )
    => TwoClausesOfCitations

(***************************************************************************)
(* Consistency guardrails on their own (specification SpecGuardrails):     *)
(* one call of ArchitectureGuardrails.validate or                          *)
(* validate_document_consistency                                           *)
(***************************************************************************)
\* lower-cased component names of a state of the architecture context
CurrentStates ==
    { {}, {"mysql"}, {"postgresql"}, {"oracle"}, {"mysql", "oke"},
      {"mysql", "postgresql"} }

TargetStates ==
    { {}, {"mysql"}, {"oke"}, {"public load balancer"}, {"on-prem dc"},
      {"drg"} }

\* words of a lower-cased section text
TextWords ==
    { "mysql", "postgresql", "oracle", "oke", "kubernetes", "token",
      "streaming", "ingress", "load balancer", "vpn", "drg" }

SectionTexts == { words \in SUBSET TextWords : Cardinality(words) <= 2 }

\* Python "term in word" for the words above
SubstringOf(term, word) ==
    \/ term = word
    \/ term = "oke" /\ word = "token"
    \/ term = "load balancer" /\ word = "public load balancer"
    \/ term = "on-prem" /\ word = "on-prem dc"

\* Python "term in text"
Mentions(text, term) == \E word \in text : SubstringOf(term, word)

_collect_component_names(state) == state

\* a finding and the technologies its message names
Issue(rule, names) == [rule |-> rule, names |-> names]

IssueIf(condition, rule, names) ==
    IF condition THEN <<Issue(rule, names)>> ELSE << >>

guardrails_validate(text, current, target) ==
    LET all_components == _collect_component_names(current)
                          \cup _collect_component_names(target)
    IN  IssueIf(/\ "oke" \in all_components
                /\ ~Mentions(text, "oke") /\ ~Mentions(text, "kubernetes"),
                "oke", {"oke"})
        \o IssueIf(/\ "mysql" \in all_components
                   /\ Mentions(text, "postgresql")
                   /\ "postgresql" \notin all_components,
                   "database", {"postgresql", "mysql"})
        \o IssueIf(/\ "streaming" \notin all_components
                   /\ Mentions(text, "streaming"),
                   "streaming", {"streaming"})
        \o IssueIf(/\ \E name \in all_components :
                          SubstringOf("load balancer", name)
                   /\ ~Mentions(text, "ingress")
                   /\ ~Mentions(text, "load balancer"),
                   "load_balancer", {"load balancer"})
        \o IssueIf(/\ \E name \in all_components :
                          SubstringOf("on-prem", name)
                   /\ ~Mentions(text, "vpn") /\ ~Mentions(text, "drg"),
                   "on_prem", {"vpn", "drg"})

validate_document_consistency_call(joined, current, target) ==
    LET component_names == _collect_component_names(current)
                           \cup _collect_component_names(target)
    IN  IssueIf(/\ "mysql" \in component_names
                /\ Mentions(joined, "postgresql")
                /\ "postgresql" \notin component_names,
                "database_consistency", {"postgresql", "mysql"})
        \o IssueIf(/\ "oke" \in component_names
                   /\ ~Mentions(joined, "kubernetes")
                   /\ ~Mentions(joined, "oke"),
                   "kubernetes_consistency", {"oke", "kubernetes"})
        \o IssueIf(/\ \E c \in component_names :
                          \/ SubstringOf("drg", c)
                          \/ SubstringOf("on-prem", c)
                          \/ SubstringOf("vpn", c)
                   /\ ~Mentions(joined, "drg") /\ ~Mentions(joined, "vpn"),
                   "networking_consistency", {"drg", "vpn"})

GuardrailCall(op, text, current, target, issues) ==
    /\ last = NoCall
    /\ last' = [ op |-> op, case_id |-> "", stage_before |-> "",
                 result |-> "ok", writes |-> << >>, llm_calls |-> 0,
                 text |-> text, current_state |-> current,
                 target_state |-> target, issues |-> issues ]
    /\ UNCHANGED cases

validate_guardrails(text, current, target) ==
    GuardrailCall("ArchitectureGuardrails.validate", text, current, target,
                  guardrails_validate(text, current, target))

validate_document_consistency(text, current, target) ==
    GuardrailCall("validate_document_consistency", text, current, target,
                  validate_document_consistency_call(text, current, target))

NextGuardrails ==
    /\ last = NoCall
    /\ \E text \in SectionTexts, current \in CurrentStates,
          target \in TargetStates :
           \/ validate_guardrails(text, current, target)
           \/ validate_document_consistency(text, current, target)

SpecGuardrails == Init /\ [][NextGuardrails]_vars

DatabaseTechnologies == {"mysql", "postgresql", "oracle"}

Guarded ==
    last.op \in {"ArchitectureGuardrails.validate",
                 "validate_document_consistency"}

\* the one database technology the structured evidence names, if it names
\* exactly one
EvidenceDatabases ==
    (last.current_state \cup last.target_state) \cap DatabaseTechnologies

OtherDatabasesInText ==
    { technology \in DatabaseTechnologies \ EvidenceDatabases :
        Mentions(last.text, technology) }

FlagsBoth(evidence, other) ==
    Cardinality({ i \in 1..Len(last.issues) :
                    {evidence, other} \subseteq last.issues[i].names }) = 1

(***************************************************************************)
(* C18: whenever the structured evidence (current and target state) names  *)
(* exactly one database technology and the section text names a different  *)
(* one, the guardrail findings are non-empty and hold one entry naming     *)
(* both technologies, for any pair of distinct database technologies.      *)
(***************************************************************************)
C18_DatabaseMismatchFlagged ==
    (Guarded /\ Cardinality(EvidenceDatabases) = 1) =>
        \A evidence \in EvidenceDatabases, other \in OtherDatabasesInText :
            FlagsBoth(evidence, other)

\* the same for the pair the code names: MySQL in the evidence, PostgreSQL
\* in the text
C18_MySqlPostgreSqlFlagged ==
    ( /\ Guarded
      /\ EvidenceDatabases = {"mysql"}
      /\ "postgresql" \in OtherDatabasesInText )
    => FlagsBoth("mysql", "postgresql")

C18_MySqlPostgreSqlSeen ==
    /\ Guarded
    /\ EvidenceDatabases = {"mysql"}
    /\ "postgresql" \in OtherDatabasesInText
    /\ Len(last.issues) = 2

(***************************************************************************)
(* Two cases of one engine (specification SpecTwoCases): the operations    *)
(* of the engine called in any interleaving on two case ids                *)
(***************************************************************************)
TwoCaseIds == {"case-1", "case-2"}

\* the stage has no artifact of the case yet: planning is re-run, the
\* other stages run once per case
FirstRun(case_id, stage) ==
    case_id \in Registered => cases[case_id].artifacts[stage] = << >>

TwoCasePlans == { [sections |-> <<RawScope>>] }

\* the retrieval service finds candidates for every query
Answered(answers) ==
    \A name \in DOMAIN answers :
        \A i \in 1..Len(answers[name]) : answers[name][i] # << >>

\* the completion service answers every writer prompt of a section alike
AnsweredAlike(responses) ==
    \A i \in DOMAIN responses :
        \A j, k \in 1..Len(responses[i]) : responses[i][j] = responses[i][k]

NextTwoCases ==
    \/ \E case_id \in TwoCaseIds :
           create_case(case_id, ValidIntake, LlmObject(ObjFull))
    \/ \E case_id \in TwoCaseIds :
           /\ FirstRun(case_id, "EXTRACTED")
           /\ run_extract(case_id, LlmRaise)
    \/ \E case_id \in TwoCaseIds :
           \E plan_input \in TwoCasePlans :
               run_plan(case_id, plan_input, LlmRaise)
    \/ \E case_id \in TwoCaseIds :
           \E retrieve_input \in One(RetrieveInputs),
              answers \in RetrievalAnswersRead(case_id) :
               /\ FirstRun(case_id, "RETRIEVED")
               /\ Answered(answers)
               /\ run_retrieve(case_id, retrieve_input, answers)
    \/ \E case_id \in TwoCaseIds :
           /\ FirstRun(case_id, "ASSEMBLED")
           /\ run_assemble(case_id)
    \/ \E case_id \in TwoCaseIds :
           \E write_input \in One(WriteInputs),
              responses \in WriterAnswersRead(case_id) :
               /\ FirstRun(case_id, "DRAFTED")
               /\ AnsweredAlike(responses)
               /\ run_write(case_id, write_input, responses)
    \/ \E case_id \in TwoCaseIds :
           /\ FirstRun(case_id, "DRAFTED")
           /\ run_validate(case_id)
    \/ \E case_id \in TwoCaseIds :
           \E review_input \in ReviewInputsRead(case_id) :
               /\ FirstRun(case_id, "REVIEWED")
               /\ run_review(case_id, review_input)
    \/ \E case_id \in TwoCaseIds :
           /\ FirstRun(case_id, "APPROVED")
           /\ approve(case_id)

SpecTwoCases == Init /\ [][NextTwoCases]_vars

\* the artifacts of every stage of a case are numbered 1, 2, ... in the
\* order they were appended: the versions the case has when it runs alone
OwnVersions(sow_case) ==
    \A stage \in DOMAIN sow_case.artifacts :
        \A i \in 1..Len(sow_case.artifacts[stage]) :
            sow_case.artifacts[stage][i].version = i

\* a call leaves every case but the one it names as it was, and the case
\* it names with versions counted from its own lists
C19_Step ==
    /\ \A c \in DOMAIN cases :
           c # last'.case_id => (c \in DOMAIN cases' /\ cases'[c] = cases[c])
    /\ \A c \in DOMAIN cases' : OwnVersions(cases'[c])

(***************************************************************************)
(* C19: cases are isolated: in any interleaving of operations on two       *)
(* different cases of one engine, an operation on case A never changes     *)
(* case B's stage, intake or artifact lists, and each case has the stage   *)
(* and the artifact versions it would have if its operations ran alone.    *)
(***************************************************************************)
C19_CasesIsolated == [][C19_Step]_vars

\* a stage operation has just written to one case while the other case is
\* further on in its workflow and holds a re-run stage
C19_Interleaved ==
    /\ DOMAIN cases = TwoCaseIds
    /\ last.case_id = "case-2"
    /\ last.writes # << >>
    /\ cases["case-2"].stage = "PLAN_READY"
    /\ cases["case-1"].stage = "VALIDATED"
    /\ Len(cases["case-1"].artifacts["PLAN_READY"]) = 2

(***************************************************************************)
(* Failures of the external services (specification Spec)                  *)
(***************************************************************************)
\* the operations that call the completion or the retrieval service, or
\* read what they returned
ExternalCallOps ==
    {"create_case", "run_extract", "run_plan", "run_retrieve",
     "run_assemble", "run_write"}

\* the errors the engine raises for a caller's mistake: invalid input or a
\* call out of stage
CallerErrors == {"ValidationError", "StateTransitionError"}

(***************************************************************************)
(* C20: a failure of an external call (the completion or the retrieval     *)
(* service raising, timing out or returning a malformed response) is       *)
(* never surfaced as an error by create_case, run_extract, run_plan,       *)
(* run_retrieve, run_assemble or run_write: the operation completes with   *)
(* the documented fallback, so these operations raise nothing but the      *)
(* errors for invalid input and for a call out of stage.                   *)
(***************************************************************************)
C20_ExternalFailureAbsorbed ==
    last.op \in ExternalCallOps =>
        last.result \in {"ok"} \cup CallerErrors

\* a completion call that raised, absorbed by the default context
C20_RaiseAbsorbed ==
    /\ last.op = "create_case"
    /\ last.result = "ok"
    /\ last.llm_calls = 1
    /\ cases[last.case_id].structured_context
           = _extract_structured_context(ValidIntake, LlmRaise)

(***************************************************************************)
(* The write/validate loop of one section with its re-retrieval            *)
(* (specification SpecWrite): one call of _write_with_validation_retry on  *)
(* a section definition, the candidates of the blueprint, the answers of   *)
(* the completion service and the answers of the retrieval service; or one *)
(* call of _retrieve_with_fallback on its own                              *)
(***************************************************************************)
MaxWriteRetries == 1

WritePolicies ==
    { [min_clauses |-> k, relaxation_order |-> order, max_retries |-> r] :
        k \in {1, 2}, order \in { << >>, <<"tags">> },
        r \in 0..MaxWriteRetries }

\* a template section whose content cannot reach min_words fails validation
WriteShapes ==
    { [category |-> "clause", min_content |-> << >>],
      [category |-> "technical", min_content |-> << >>],
      [category |-> "template", min_content |-> << >>],
      [category |-> "template",
       min_content |-> <<[field |-> "content", min_words |-> 5,
                          min_items |-> 0]>>],
      [category |-> "template", min_content |-> << >>,
       output_schema |->
           SchemaOf(<<"content", "action_items">>,
                    [content |-> Text(<< >>), action_items |-> Text(<< >>)])] }

\* the raw section of a shape: output_schema is given by some plans only
RawWritten(shape, policy) ==
    LET raw == [ name |-> "Scope", intent |-> "deliverables",
                 category |-> shape.category,
                 min_content |-> shape.min_content,
                 clause_filters |-> [tags |-> Lst({"scope"})],
                 fallback_policy |-> policy ]
    IN  IF "output_schema" \in DOMAIN shape
        THEN [ key \in DOMAIN raw \cup {"output_schema"} |->
                 IF key = "output_schema" THEN shape.output_schema
                 ELSE raw[key] ]
        ELSE raw

WrittenSection(shape, policy) ==
    _normalize_section_definition(RawWritten(shape, policy), ValidIntake,
                                  FallbackContext)

\* reranked_clauses of the section's blueprint entry
BlueprintCandidates == { << >>, <<CandHigh, CandLow>> }

\* what retrieve_section_clauses returns for one query of a re-retrieval
RewriteLists == { <<CandLow>>, <<CandLow, CandHigh>> }

\* the completion service's answers, one per attempt; a template section
\* asks for none
WriterAnswersOf(section_def) ==
    IF section_def.category = "template" THEN { << >> }
    ELSE [1..(section_def.fallback_policy.max_retries + 1) -> WriterResponses]

\* the retrieval service's answers: one list per query of the re-retrieval
\* that follows each attempt; a re-retrieval whose min_clauses is 1 is
\* filled by its first answer (no list of RewriteLists is empty) and makes
\* no second query
RewriteAnswers(section_def) ==
    LET policy == section_def.fallback_policy
        queries == IF policy.min_clauses <= 1 THEN 1
                   ELSE policy.max_retries + 1
    IN  [1..(policy.max_retries + 1) -> [1..queries -> RewriteLists]]

\* what the loop has accumulated: the candidates of the next prompt, the
\* diagnostics entries, the candidates every attempt was written from, and
\* the calls made to the two services
RetryState(candidates, attempts, used, llm_calls, retrieval_calls) ==
    [ candidates |-> candidates, attempts |-> attempts, used |-> used,
      llm_calls |-> llm_calls, retrieval_calls |-> retrieval_calls ]

RetryResult(output, acc, error) ==
    [ output |-> output, diagnostics |-> [attempts |-> acc.attempts],
      used |-> acc.used, llm_calls |-> acc.llm_calls,
      retrieval_calls |-> acc.retrieval_calls, error |-> error ]

\* faulty variant of Written: the writer prompts the completion service a
\* second time within one attempt
Written_two_prompts(section_def, acc) ==
    [ acc EXCEPT
        !.used = Append(@, acc.candidates),
        !.llm_calls = IF section_def.category = "template" THEN @ ELSE @ + 2 ]

\* the loop state once an attempt was written from acc.candidates
Written(section_def, acc) ==
    [ acc EXCEPT
        !.used = Append(@, acc.candidates),
        !.llm_calls = IF section_def.category = "template" THEN @ ELSE @ + 1 ]

\* diagnostics["attempts"].append(...)
Recorded(section_def, attempt, checked, acc) ==
    [ acc EXCEPT
        !.attempts = Append(@, WriteAttempt(section_def, attempt, checked)) ]

\* diagnostics["attempts"][-1]["retrieval_retry"] = retrieval_diag
WithRetrievalRetry(entry, retrieval_diag) ==
    [ key \in DOMAIN entry \cup {"retrieval_retry"} |->
        IF key = "retrieval_retry" THEN retrieval_diag ELSE entry[key] ]

\* the loop state once the re-retrieval of a failed attempt has returned
Rewritten(section_def, acc, retrieved) ==
    [ acc EXCEPT
        !.candidates = Take(rerank_clauses(section_def.name,
                                           retrieved.clauses), TOP_M),
        !.attempts = [ @ EXCEPT ![Len(@)] =
                         WithRetrievalRetry(@, retrieved.diagnostics) ],
        !.retrieval_calls = @ + retrieved.calls ]

RECURSIVE RetryLoop(_, _, _, _, _, _, _)

\* after the re-retrieval of a failed attempt
RetryRetrieved(section_def, intake, extracted_context, resps, answers, attempt, acc, output, retrieved) ==
    IF retrieved.error # "none"
    THEN RetryResult(output,
                     [acc EXCEPT !.retrieval_calls = @ + retrieved.calls],
                     retrieved.error)
    ELSE RetryLoop(section_def, intake, extracted_context, resps, answers,
                   attempt + 1, Rewritten(section_def, acc, retrieved))

\* faulty variant of RetryChecked: an attempt that validates does not end
\* the loop while the retry budget lasts
RetryChecked_keeps_trying(section_def, intake, extracted_context, resps, answers, attempt, acc, output, checked) ==
    IF checked.error # "none"
    THEN RetryResult(output, acc, checked.error)
    ELSE IF checked.ok /\ attempt >= section_def.fallback_policy.max_retries
    THEN RetryResult(output, Recorded(section_def, attempt, checked, acc),
                     "none")
    ELSE IF checked.ok
    THEN RetryLoop(section_def, intake, extracted_context, resps, answers,
                   attempt + 1, Recorded(section_def, attempt, checked, acc))
    ELSE RetryRetrieved(section_def, intake, extracted_context, resps,
                        answers, attempt,
                        Recorded(section_def, attempt, checked, acc), output,
                        _retrieve_with_fallback(section_def,
                            extracted_context, 8, answers[attempt + 1]))

\* after the output of an attempt was validated
RetryChecked(section_def, intake, extracted_context, resps, answers, attempt, acc, output, checked) ==
    IF checked.error # "none"
    THEN RetryResult(output, acc, checked.error)
    ELSE IF checked.ok
    THEN RetryResult(output, Recorded(section_def, attempt, checked, acc),
                     "none")
    ELSE RetryRetrieved(section_def, intake, extracted_context, resps,
                        answers, attempt,
                        Recorded(section_def, attempt, checked, acc), output,
                        _retrieve_with_fallback(section_def,
                            extracted_context, 8, answers[attempt + 1]))

\* after the output of an attempt was written
RetryWritten(section_def, intake, extracted_context, resps, answers, attempt, acc, output) ==
    RetryChecked(section_def, intake, extracted_context, resps, answers,
                 attempt, Written(section_def, acc), output,
                 validate_section_output(section_def, output,
                                         extracted_context))

\* the for-loop of _write_with_validation_retry from iteration `attempt`
\* (0-based) on
RetryLoop(section_def, intake, extracted_context, resps, answers, attempt, acc) ==
    IF attempt > section_def.fallback_policy.max_retries
    THEN RetryResult(_build_tbd_output(section_def), acc, "none")
    ELSE RetryWritten(section_def, intake, extracted_context, resps, answers,
                      attempt, acc,
                      WriteOutput(section_def, intake, resps, attempt))

write_with_retrieval_call(section_def, candidates, intake, extracted_context, resps, answers) ==
    RetryLoop(section_def, intake, extracted_context, resps, answers, 0,
              RetryState(candidates, << >>, << >>, 0, 0))

write_with_validation_retry(section_def, candidates, resps, answers) ==
    LET out == write_with_retrieval_call(section_def, candidates,
                   ValidIntake, FallbackContext, resps, answers)
    IN  /\ last = NoCall
        /\ last' = [ op |-> "_write_with_validation_retry", case_id |-> "",
                     stage_before |-> "",
                     result |-> IF out.error = "none" THEN "ok"
                                ELSE out.error,
                     writes |-> << >>, llm_calls |-> out.llm_calls,
                     retrieval_calls |-> out.retrieval_calls,
                     section_def |-> section_def,
                     candidates |-> candidates,
                     resps |-> resps, answers |-> answers,
                     used |-> out.used,
                     output |-> out.output,
                     attempts |-> out.diagnostics.attempts ]
        /\ UNCHANGED cases

\* JSON objects the completion service can answer a writer prompt with:
\* any part of an object that has fields of the schemas and one of none
WriterObjectFields ==
    [ content         |-> Text(<<"kickoff", "plan">>),
      section_summary |-> Text(<<"provider", "delivers">>),
      obligations     |-> Lst({"deliver runbook"}),
      notes           |-> Text(<<"draft">>) ]

WriterObjects ==
    { [key \in keys |-> WriterObjectFields[key]] :
        keys \in SUBSET DOMAIN WriterObjectFields }

WriterPromptResponses ==
    {LlmRaise, LlmUnparseable} \cup { LlmObject(obj) : obj \in WriterObjects }

WriterSchemas ==
    { DEFAULT_SECTION_SCHEMAS[category] :
        category \in {"clause", "technical", "template"} }
    \cup { SchemaOf(<<"content", "action_items">>,
                    [content |-> Text(<< >>), action_items |-> Text(<< >>)]),
           SchemaOf(<<"section_summary", "notes">>,
                    [section_summary |-> Text(<<"none">>),
                     notes |-> Lst({"n/a"})]) }

\* one writer prompt answered by resp
run_writer_prompt(resp, section_schema) ==
    /\ last = NoCall
    /\ last' = [ op |-> "_run_writer_prompt", case_id |-> "",
                 stage_before |-> "", result |-> "ok", writes |-> << >>,
                 llm_calls |-> 1, resp |-> resp,
                 section_schema |-> section_schema,
                 output |-> _run_writer_prompt(resp, section_schema) ]
    /\ UNCHANGED cases

NextWrite ==
    /\ last = NoCall
    /\ \/ \E shape \in WriteShapes, policy \in WritePolicies,
             candidates \in BlueprintCandidates :
              \E resps \in WriterAnswersOf(WrittenSection(shape, policy)),
                 answers \in RewriteAnswers(WrittenSection(shape, policy)) :
                  write_with_validation_retry(WrittenSection(shape, policy),
                                              candidates, resps, answers)
       \/ \E policy \in RetrievePolicies :
              \E answers \in PolicyAnswers(policy) :
                  retrieve_with_fallback(policy, answers)
       \/ \E resp \in WriterPromptResponses, section_schema \in WriterSchemas :
              run_writer_prompt(resp, section_schema)

SpecWrite == Init /\ [][NextWrite]_vars

SectionWritten == last.op = "_write_with_validation_retry"

SectionRetrieved == last.op = "_retrieve_with_fallback"

(***************************************************************************)
(* C21: no unbounded retry: writing a section makes at most                *)
(* max_retries + 1 completion calls and at most                            *)
(* (max_retries + 1) * (max_retries + 1) retrieval calls, and              *)
(* _retrieve_with_fallback as run_retrieve calls it makes at most          *)
(* max_retries + 1 retrieval calls, so both operations terminate.          *)
(***************************************************************************)
C21_BoundedRetries ==
    /\ SectionWritten =>
           LET budget == last.section_def.fallback_policy.max_retries + 1
           IN  /\ last.llm_calls <= budget
               /\ last.retrieval_calls <= budget * budget
    /\ SectionRetrieved => last.calls <= last.policy.max_retries + 1

\* every attempt failed and every re-retrieval spent its whole budget
C21_BudgetsSpent ==
    /\ SectionWritten
    /\ last.section_def.fallback_policy.max_retries = MaxWriteRetries
    /\ last.llm_calls = MaxWriteRetries + 1
    /\ last.retrieval_calls = (MaxWriteRetries + 1) * (MaxWriteRetries + 1)

(***************************************************************************)
(* The sections run_write drafts (specification SpecDraft): one case with  *)
(* plans of two sections, retrieved for all or for one of them             *)
(***************************************************************************)
DraftPlans ==
    { [sections |-> <<RawArchitecture, RawScope>>],
      [sections |-> <<RawScope, RawArchitecture>>] }

DraftRetrieveInputs ==
    { [top_k |-> 8, allow_partial |-> ap, section_names |-> names] :
        ap \in BOOLEAN, names \in { {}, {"Scope"} } }

\* review inputs: the default phrases, no phrase, and a caller's list
DraftReviewInputs ==
    { EmptyDict, [forbidden_phrases |-> << >>],
      [forbidden_phrases |-> <<"Migration", "zone">>] }

NextDraft ==
    \/ \E case_id \in CaseIds :
           create_case(case_id, ValidIntake, LlmObject(ObjFull))
    \/ \E case_id \in CaseIds :
           \E plan_input \in DraftPlans :
               run_plan(case_id, plan_input, LlmRaise)
    \/ \E case_id \in CaseIds :
           \E retrieve_input \in DraftRetrieveInputs,
              answers \in RetrievalAnswersRead(case_id) :
               /\ FirstRun(case_id, "RETRIEVED")
               /\ run_retrieve(case_id, retrieve_input, answers)
    \/ \E case_id \in CaseIds :
           /\ FirstRun(case_id, "ASSEMBLED")
           /\ run_assemble(case_id)
    \/ \E case_id \in CaseIds :
           \E write_input \in WriteInputsRead(case_id),
              responses \in WriterAnswersRead(case_id) :
               /\ FirstRun(case_id, "DRAFTED")
               /\ run_write(case_id, write_input, responses)
    \/ \E case_id \in CaseIds :
           \E review_input \in DraftReviewInputs :
               /\ FirstRun(case_id, "REVIEWED")
               /\ run_review(case_id, review_input)

SpecDraft == Init /\ [][NextDraft]_vars

PlannedSections(sow_case) == LatestPayload(sow_case, "PLAN_READY").plan.sections

AssemblyBlueprint(sow_case) ==
    LatestPayload(sow_case, "ASSEMBLED").assembly_blueprint

\* the i-th drafted section is the i-th planned one, and was written from
\* no candidate when the blueprint has no entry for it
DraftedFromPlan(sow_case, i) ==
    LET planned == PlannedSections(sow_case)[i]
        drafted == DraftedSections(sow_case)[i]
    IN  /\ drafted.name = planned.name
        /\ planned.name \notin DOMAIN AssemblyBlueprint(sow_case)
               => drafted.source_mapping[1].clause_ids = << >>

RECURSIVE Relaxable(_)
Relaxable(order) ==
    IF order = << >> THEN << >>
    ELSE (IF Head(order) # "section" THEN <<Head(order)>> ELSE << >>)
             \o Relaxable(Tail(order))

\* the i-th retrieval attempt of the most recent call returned at least
\* min_clauses candidates
EnoughAt(i) == Len(last.answers[i]) >= last.policy.min_clauses

\* before the i-th attempt every relaxable dimension was already relaxed on
\* an earlier attempt that was then tried
ExhaustedAt(i) == i > Len(Relaxable(last.policy.relaxation_order)) + 1

\* the loop may stop after its i-th attempt
StopsAt(i) ==
    \/ EnoughAt(i)
    \/ ExhaustedAt(i + 1)
    \/ i = last.policy.max_retries + 1

\* C23: the retrieval-with-relaxation loop stops exactly when an attempt
\* returned at least min_clauses candidates, or every relaxable dimension
\* of relaxation_order has been relaxed, or max_retries + 1 attempts were
\* made: its last attempt meets one of the three conditions and no earlier
\* attempt meets any, so no attempt follows the exhaustion of the
\* relaxation list.
C23_StopsExactlyWhenDue ==
    (SectionRetrieved /\ last.result = "ok") =>
        /\ last.calls >= 1
        /\ StopsAt(last.calls)
        /\ \A i \in 1..(last.calls - 1) : ~StopsAt(i)

\* the filters the i-th attempt has when the first i - 1 relaxable
\* dimensions are relaxed
FiltersOfAttempt(i) ==
    build_retrieval_query(PolicySection(last.policy), FallbackContext,
                          Take(Relaxable(last.policy.relaxation_order), i - 1))

\* C24: between two consecutive retrieval attempts exactly one more
\* dimension is relaxed, the next of relaxation_order that is not section:
\* attempt i + 1 is made without exactly the first i relaxable dimensions,
\* and every attempt keeps the section filter.
C24_OneMoreDimensionPerAttempt ==
    (SectionRetrieved /\ last.result = "ok") =>
        /\ \A i \in 1..last.calls :
               /\ "section" \in DOMAIN last.diagnostics.attempts[i].filters_used
               /\ last.diagnostics.attempts[i].filters_used = FiltersOfAttempt(i)
        /\ \A i \in 1..(last.calls - 1) :
               Len(Relaxable(last.policy.relaxation_order)) >= i

\* C25: the retrieval-with-relaxation engine never raises: for every
\* min_clauses, max_retries and relaxation_order, an empty one and one that
\* holds only section included, and every answer of the retrieval service,
\* it returns the candidates of its final attempt.
C25_RetrievalNeverRaises ==
    SectionRetrieved =>
        /\ last.result = "ok"
        /\ last.calls >= 1
        /\ last.clauses = last.answers[last.calls]


(***************************************************************************)
(* The attempts of the write/validate loop (specification SpecWrite)       *)
(***************************************************************************)
\* the output the i-th attempt of the most recent call wrote
AttemptOutput(i) ==
    WriteOutput(last.section_def, ValidIntake, last.resps, i - 1)

\* the i-th attempt's output validates
AttemptValidates(i) ==
    validate_section_output(last.section_def, AttemptOutput(i),
                            FallbackContext).ok

WriteReturned == SectionWritten /\ last.result = "ok"

\* C26: the write/validate loop of a section makes at most max_retries + 1
\* write attempts; it returns the output of the first attempt that
\* validates and makes no attempt after it; its diagnostics hold one entry
\* per attempt, in order, with pass = false on every entry but a final
\* passing one.
C26_FirstValidAttemptReturned ==
    /\ SectionWritten =>
           Len(last.used) <= last.section_def.fallback_policy.max_retries + 1
    /\ WriteReturned =>
           LET n == Len(last.attempts)
           IN  /\ n >= 1
               /\ n = Len(last.used)
               /\ \A i \in 1..n :
                      /\ last.attempts[i].attempt = i
                      /\ last.attempts[i].pass = AttemptValidates(i)
               /\ \A i \in 1..(n - 1) : ~last.attempts[i].pass
               /\ last.attempts[n].pass => last.output = AttemptOutput(n)
               /\ ~last.attempts[n].pass =>
                      n = last.section_def.fallback_policy.max_retries + 1

\* the second attempt was the first to validate
C26_SecondAttemptValidated ==
    /\ WriteReturned
    /\ Len(last.attempts) = 2
    /\ ~last.attempts[1].pass
    /\ last.attempts[2].pass
    /\ last.output = AttemptOutput(2)


(***************************************************************************)
(* The fallback output of the write/validate loop (specification           *)
(* SpecWrite)                                                              *)
(***************************************************************************)
\* every attempt of the most recent call failed and the call returned
AllAttemptsFailed ==
    /\ WriteReturned
    /\ \A i \in 1..Len(last.attempts) : ~last.attempts[i].pass

IsString(value) == value.t \in {"str", "text"}

\* the fallback value of the schema field key
TbdField(key) ==
    LET default == last.section_def.output_schema.defaults[key]
    IN  /\ IsString(default) => last.output[key] = Text(<<"TBD">>)
        /\ IsList(default) => last.output[key] = Lst({"TBD"})

\* the output has the schema's fields and action_items, a non-empty list
TbdShape ==
    /\ DOMAIN last.output
           = SchemaKeySet(last.section_def.output_schema) \cup {"action_items"}
    /\ IsList(last.output["action_items"])
    /\ last.output["action_items"].v # {}

\* C27 as stated: when every write/validate attempt of a section fails the
\* output has exactly the schema's fields plus action_items, every schema
\* field with a string default is "TBD", every schema field with a list
\* default is ["TBD"], and action_items is a non-empty list.
C27_TbdForEverySchemaField ==
    AllAttemptsFailed =>
        /\ TbdShape
        /\ \A key \in SchemaKeySet(last.section_def.output_schema) :
               TbdField(key)

\* C27: when every write/validate attempt of a section fails the output
\* has exactly the schema's fields plus action_items, every schema field
\* other than action_items with a string default is "TBD", every schema
\* field other than action_items with a list default is ["TBD"], and
\* action_items is a non-empty list of next steps.
C27_TbdForEveryOtherSchemaField ==
    AllAttemptsFailed =>
        /\ TbdShape
        /\ \A key \in SchemaKeySet(last.section_def.output_schema)
                          \ {"action_items"} :
               TbdField(key)

\* the whole budget of a clause section, whose schema has string and list
\* defaults, was spent on failing attempts
C27_ClauseSectionTbd ==
    /\ AllAttemptsFailed
    /\ last.section_def.category = "clause"
    /\ Len(last.attempts) = MaxWriteRetries + 1
    /\ last.output["section_summary"] = Text(<<"TBD">>)
    /\ last.output["obligations"] = Lst({"TBD"})


(***************************************************************************)
(* The re-retrieval between write attempts (specification SpecWrite)       *)
(***************************************************************************)
\* the attempts of the most recent call after which retrieval was re-run
ReRetrievedAfter ==
    { i \in 1..Len(last.attempts) :
        "retrieval_retry" \in DOMAIN last.attempts[i] }

\* the candidates the re-retrieval after the i-th attempt hands on
ReRanked(i) ==
    Take(rerank_clauses(last.section_def.name,
                        _retrieve_with_fallback(last.section_def,
                            FallbackContext, 8, last.answers[i]).clauses),
         TOP_M)

\* the first attempt is written from the blueprint's candidates, every
\* later one from the re-ranked result of the re-retrieval before it
WrittenFromReRanked ==
    /\ last.used[1] = last.candidates
    /\ \A i \in 1..(Len(last.attempts) - 1) :
           /\ i \in ReRetrievedAfter
           /\ last.used[i + 1] = ReRanked(i)

\* C28: after a failed attempt and before the next one the retrieval engine
\* is re-run for the section and the next attempt is written from the
\* re-ranked result of that re-run; retrieval is re-run only when a next
\* attempt follows, so at most max_retries times per section.
C28_ReRetrievalOnlyBeforeNextAttempt ==
    WriteReturned =>
        /\ WrittenFromReRanked
        /\ Len(last.attempts) \notin ReRetrievedAfter
        /\ Cardinality(ReRetrievedAfter)
               <= last.section_def.fallback_policy.max_retries


(***************************************************************************)
(* The min-content rules of the validator (specification SpecValidate)     *)
(***************************************************************************)
Validated == last.op = "validate_section_output" /\ last.result = "ok"

\* the output meets the rule: the field holds a string of at least
\* min_words words, a list of at least min_items items
MinContentMet(rule, section_json) ==
    LET held == rule.field \in DOMAIN section_json
        value == section_json[rule.field]
    IN  /\ rule.min_words > 0 =>
               /\ held
               /\ IsString(value)
               /\ value # Str("")
               /\ WordCount(value) >= rule.min_words
        /\ rule.min_items > 0 =>
               /\ held
               /\ IsList(value)
               /\ Cardinality(value.v) >= rule.min_items

\* C29: a section output passes validation only if every min-content rule
\* is met: the field of a min_words = N rule holds at least N words, the
\* field of a min_items = N rule at least N items; an output in which such
\* a field is absent or holds a value of the other type does not pass.
C29_PassOnlyIfMinContentMet ==
    (Validated /\ last.ok) =>
        \A i \in 1..Len(last.section_def.min_content) :
            MinContentMet(last.section_def.min_content[i], last.section_json)


(***************************************************************************)
(* The checks of technical sections (specification SpecValidate)           *)
(***************************************************************************)
\* the output's architecture_pattern is the one of the structured context,
\* compared as the validator compares them (stripped, lower case)
PatternAgrees(section_json, extracted_context) ==
    PatternWords(Get(section_json, "architecture_pattern", NoneV))
        = PatternWords(extracted_context["architecture_pattern"])

\* every service the output names is on the context's list
ServicesAllowed(section_json, extracted_context) ==
    \A service \in _extract_services_from_section(section_json) :
        Lower(service)
            \in { Lower(x) : x \in extracted_context["allowed_services"].v }

TechnicalRules == {"architecture_pattern", "service"}

\* C30: for technical sections, and only for those, validation fails
\* unless the output's architecture_pattern equals the architecture
\* pattern of the structured context and every service the output names is
\* in the context's allowed_services; for template and clause sections
\* the two checks never add a reason.  (Checked where the context gives a
\* pattern and a non-empty list of allowed services.)
C30_TechnicalChecks ==
    Validated =>
        /\ ( /\ last.section_def.category = "technical"
             /\ last.ok
             /\ Truthy(last.extracted_context["architecture_pattern"])
             /\ last.extracted_context["allowed_services"].v # {} )
           => /\ PatternAgrees(last.section_json, last.extracted_context)
              /\ ServicesAllowed(last.section_json, last.extracted_context)
        /\ last.section_def.category # "technical"
           => \A i \in 1..Len(last.reasons) :
                  last.reasons[i].rule \notin TechnicalRules


(***************************************************************************)
(* The schema-constrained writer (specification SpecWrite)                 *)
(***************************************************************************)
WriterPrompted == last.op = "_run_writer_prompt"

\* the completion service raised or its response holds no JSON object
NothingParsed == last.resp.kind # "object"

\* C31: the schema-constrained writer never propagates an error of the
\* completion service: when the call raises or the response does not
\* parse to a JSON object it returns exactly the schema's fields with the
\* schema's own defaults, and for every response the field set of the
\* output is the field set of the schema.
C31_WriterReturnsSchemaFields ==
    WriterPrompted =>
        /\ last.result = "ok"
        /\ DOMAIN last.output = SchemaKeySet(last.section_schema)
        /\ NothingParsed =>
               \A key \in SchemaKeySet(last.section_schema) :
                   last.output[key] = last.section_schema.defaults[key]

\* the completion service answered with an object that has a field of the
\* schema and a field the schema does not have, and lacks a schema field
C31_ForeignFieldDropped ==
    /\ WriterPrompted
    /\ last.resp.kind = "object"
    /\ "notes" \in DOMAIN last.resp.obj
    /\ "notes" \notin SchemaKeySet(last.section_schema)
    /\ {"section_summary", "obligations"}
           \subseteq SchemaKeySet(last.section_schema)
    /\ "section_summary" \in DOMAIN last.resp.obj
    /\ "obligations" \notin DOMAIN last.resp.obj
    /\ last.output["section_summary"] = last.resp.obj["section_summary"]
    /\ last.output["obligations"] = Lst({})


(***************************************************************************)
(* Template sections (specification SpecWrite)                             *)
(***************************************************************************)
\* C32: writing a section of category template makes no external call:
\* during its whole write/validate processing neither the completion
\* service nor the retrieval service is invoked, whether or not the
\* synthesized content passes validation.
C32_TemplateMakesNoExternalCall ==
    (SectionWritten /\ last.section_def.category = "template") =>
        /\ last.llm_calls = 0
        /\ last.retrieval_calls = 0


(***************************************************************************)
(* The blueprint entry of one section (specification SpecAssemble): the    *)
(* body of the loop of run_assemble on retrieved lists of up to            *)
(* MaxRetrieved candidates                                                 *)
(***************************************************************************)
MaxRetrieved == 5

\* (relevance score, the section names the clause text holds)
ClauseKinds ==
    { [score |-> score, mentions |-> mentions] :
        score \in {50, 90}, mentions \in { {}, {"Scope"} } }

ChunkIdAt(i) ==
    CASE i = 1 -> "kb-1" [] i = 2 -> "kb-2" [] i = 3 -> "kb-3"
      [] i = 4 -> "kb-4" [] i = 5 -> "kb-5" [] OTHER -> "kb-6"

\* the retrieved lists: the i-th candidate has the i-th chunk id
RetrievedClauses ==
    UNION { { [i \in 1..n |->
                 Candidate(ChunkIdAt(i), kinds[i].score, kinds[i].mentions)] :
              kinds \in [1..n -> ClauseKinds] } : n \in 0..MaxRetrieved }

AssembledSections ==
    { PolicySection(SmallPolicy),
      WrittenSection([category |-> "template",
                      min_content |-> <<[field |-> "content", min_words |-> 5,
                                         min_items |-> 0]>>],
                     [min_clauses |-> 1, relaxation_order |-> <<"tags">>,
                      max_retries |-> 0]) }

assemble_section(section_def, clauses) ==
    LET entry == BlueprintEntry(section_def.name, clauses,
                                SectionDefs(<<section_def>>))
    IN  /\ last = NoCall
        /\ last' = [ op |-> "run_assemble", case_id |-> "",
                     stage_before |-> "", result |-> "ok",
                     writes |-> << >>, llm_calls |-> 0,
                     section_def |-> section_def, clauses |-> clauses,
                     entry |-> entry,
                     pre_rerank_count |-> Len(clauses),
                     post_rerank_count |-> Len(entry.reranked_clauses) ]
        /\ UNCHANGED cases

NextAssemble ==
    /\ last = NoCall
    /\ \E section_def \in AssembledSections, clauses \in RetrievedClauses :
           assemble_section(section_def, clauses)

SpecAssemble == Init /\ [][NextAssemble]_vars

SectionAssembled == last.op = "run_assemble" /\ "entry" \in DOMAIN last

Min(a, b) == IF a < b THEN a ELSE b

\* (score, boost) of a is greater than that of b
OutRanks(a, b) ==
    LET boost(item) == IF last.section_def.name \in item.mentions THEN 1 ELSE 0
    IN  \/ a.score > b.score
        \/ a.score = b.score /\ boost(a) > boost(b)

\* kept is the top of clauses: as many as fit, each of them retrieved, in
\* descending order, none outranked by a candidate left out
TopRanked(kept, clauses) ==
    /\ Len(kept) = Min(Len(clauses), TOP_M)
    /\ \A i \in 1..Len(kept) : \E j \in 1..Len(clauses) : kept[i] = clauses[j]
    /\ \A i, j \in 1..Len(kept) : i # j => kept[i] # kept[j]
    /\ \A i, j \in 1..Len(kept) : i < j => ~OutRanks(kept[j], kept[i])
    /\ \A j \in 1..Len(clauses) :
           (\A i \in 1..Len(kept) : kept[i] # clauses[j])
               => \A i \in 1..Len(kept) : ~OutRanks(clauses[j], kept[i])

\* C33: the blueprint of a section of the retrieval set lists the
\* candidates sorted descending by (relevance score, boost), boost being 1
\* if the section name appears in the clause text and 0 otherwise,
\* truncated to the top 4; primary_clause_ids are the first min(2, count)
\* ids of that order, post_rerank_count is min(pre_rerank_count, 4), and
\* required_fields, min_content and fallback_policy are those of the plan.
C33_BlueprintRanksTopFour ==
    SectionAssembled =>
        /\ TopRanked(last.entry.reranked_clauses, last.clauses)
        /\ last.entry.order = ChunkIds(last.entry.reranked_clauses)
        /\ last.entry.primary_clause_ids
               = SubSeq(last.entry.order, 1, Min(2, Len(last.entry.order)))
        /\ last.post_rerank_count = Min(last.pre_rerank_count, 4)
        /\ last.entry.required_fields = last.section_def.required_fields
        /\ last.entry.min_content = last.section_def.min_content
        /\ last.entry.fallback_policy = last.section_def.fallback_policy

\* five candidates were retrieved, the last of them with the highest rank,
\* and the one left out had the lowest
C33_FifthCandidateFirst ==
    /\ SectionAssembled
    /\ Len(last.clauses) = 5
    /\ last.entry.order[1] = "kb-5"
    /\ \A i \in 1..4 : OutRanks(last.clauses[5], last.clauses[i])
    /\ "kb-1" \notin { last.entry.order[i] : i \in 1..4 }
    /\ last.entry.primary_clause_ids = SubSeq(last.entry.order, 1, 2)


(***************************************************************************)
(* The retrieval session of the engine (specification SpecSession): the    *)
(* retrieve_section_clauses calls that the stage operations of two cases   *)
(* make on the engine's one KnowledgeAccessService, in any interleaving    *)
(***************************************************************************)
MaxChats == 3

SessionIds == {"sess-1", "sess-2"}

\* what rag_service.chat does for one prompt: it raises, or it returns a
\* response with or without a session_id and some candidates
SessionChats ==
    { [raises |-> TRUE, session_id |-> NoneV, candidates_count |-> 0] }
    \cup { [raises |-> FALSE, session_id |-> sid, candidates_count |-> n] :
             sid \in {NoneV} \cup { Str(x) : x \in SessionIds }, n \in 0..1 }

\* KnowledgeAccessService._session_id, None after construction
EngineSession == Get(last, "session_id", NoneV)

\* the case whose operation made the assignment _session_id holds, "" if
\* there was none
EngineSessionOf == Get(last, "session_of", "")

\* KnowledgeAccessService._last_retrieval_diagnostics["candidates_count"]
EngineCandidatesCount == Get(last, "candidates_count", 0)

ChatsMade == Get(last, "chats", 0)

\* one retrieve_section_clauses(..., allow_relaxed_retry=False) call made
\* by a stage operation on case_id
session_retrieve(case_id, chat) ==
    LET session_id == EngineSession
        returned == IF Truthy(chat.session_id) THEN chat.session_id
                    ELSE session_id
    IN  /\ ChatsMade < MaxChats
        /\ last' = [ op |-> "retrieve_section_clauses", case_id |-> case_id,
                     stage_before |-> "",
                     result |-> "ok", writes |-> << >>, llm_calls |-> 0,
                     chats |-> ChatsMade + 1,
                     raised |-> chat.raises,
                     sent_session |-> session_id,
                     sent_session_of |-> EngineSessionOf,
                     session_id |-> IF chat.raises THEN session_id
                                    ELSE returned,
                     session_of |-> IF chat.raises THEN EngineSessionOf
                                    ELSE case_id,
                     candidates_count |-> IF chat.raises
                                          THEN EngineCandidatesCount
                                          ELSE chat.candidates_count ]
        /\ UNCHANGED cases

NextSession ==
    \E case_id \in TwoCaseIds, chat \in SessionChats :
        session_retrieve(case_id, chat)

SpecSession == Init /\ [][NextSession]_vars

SessionRetrieved == last.op = "retrieve_section_clauses"

\* C34: the case registry is the only mutable state cases share: no stage
\* operation on one case reads or writes engine-held mutable state that
\* an operation on another case reads or writes; the retrieval session a
\* retrieval for one case sends was not stored by an operation on another
\* case.
C34_NoSharedSessionState ==
    SessionRetrieved => last.sent_session_of \in {"", last.case_id}


(***************************************************************************)
(* The review report (specification SpecDraft)                             *)
(***************************************************************************)
ReviewReport(sow_case) == LatestPayload(sow_case, "REVIEWED").review_report

\* the forbidden phrases of a review: the caller's list, or the defaults
ForbiddenPhrases(review_input) ==
    IF "forbidden_phrases" \in DOMAIN review_input
    THEN review_input.forbidden_phrases
    ELSE <<"guarantee", "without exception">>

\* the markdown of the i-th drafted section holds the j-th phrase, in
\* whatever case
PhraseOccurs(sow_case, phrases, i, j) ==
    Lower(phrases[j]) \in DraftedSections(sow_case)[i].draft_markdown

\* the report has a critical finding that names the section and the phrase
CriticalFinding(report, section, phrase) ==
    \E f \in 1..Len(report.findings) :
        /\ report.findings[f].severity = "critical"
        /\ report.findings[f].section = section
        /\ report.findings[f].evidence = phrase

C35_Step ==
    \A c \in CaseIds, review_input \in DraftReviewInputs :
        (run_review(c, review_input) /\ last'.result = "ok") =>
            LET phrases == ForbiddenPhrases(review_input)
                drafted == DraftedSections(cases[c])
                report == ReviewReport(cases'[c])
                occurs == { <<i, j>> \in (1..Len(drafted)) \X (1..Len(phrases)) :
                              PhraseOccurs(cases[c], phrases, i, j) }
            IN  /\ report.status = "pass" <=> occurs = {}
                /\ \A o \in occurs :
                       CriticalFinding(report, drafted[o[1]].name,
                                       phrases[o[2]])
                /\ (\E f \in 1..Len(report.findings) :
                        report.findings[f].severity = "critical")
                       => report.status = "fail"
                /\ report.status \in {"pass", "fail"}

\* C35: run_review reports status "pass" exactly when no drafted section's
\* markdown contains, in whatever case, any of the forbidden phrases (the
\* caller's list, or the defaults "guarantee" and "without exception");
\* every occurrence of a forbidden phrase yields a critical finding that
\* names the section and the phrase, and the status is "fail" whenever a
\* critical finding exists.
C35_ReviewPassesWithoutForbiddenPhrase == [][C35_Step]_vars

\* a review has found a forbidden phrase in each of two drafted sections
C35_PhraseInTwoSections ==
    \E c \in Registered :
        /\ last.op = "run_review" /\ last.case_id = c /\ last.result = "ok"
        /\ ReviewReport(cases[c]).status = "fail"
        /\ CriticalFinding(ReviewReport(cases[c]), "Scope", "Migration")
        /\ CriticalFinding(ReviewReport(cases[c]), "Architecture", "zone")


(***************************************************************************)
(* Artifacts in workflow order                                             *)
(***************************************************************************)
\* the stages from EXTRACTED up to the stage of the case, APPROVED left out
StagesReached(sow_case) ==
    { T \in WorkflowStage \ {"APPROVED"} :
        /\ StageRank("EXTRACTED") <= StageRank(T)
        /\ StageRank(T) <= StageRank(sow_case.stage) }

\* the stages whose latest artifact a handler reads after its stage check
ArtifactsRead(op) ==
    CASE op = "run_extract"  -> {}
      [] op = "run_plan"     -> {}
      [] op = "run_retrieve" -> {"PLAN_READY"}
      [] op = "run_assemble" -> {"RETRIEVED", "PLAN_READY"}
      [] op = "run_write"    -> {"ASSEMBLED", "PLAN_READY"}
      [] op = "run_validate" -> {"DRAFTED", "PLAN_READY"}
      [] op = "run_review"   -> {"DRAFTED"}
      [] op = "approve"      -> {"REVIEWED"}

\* C36: in every state between operations, if case.stage is S then every
\* stage T with EXTRACTED <= T <= S other than APPROVED has at least one
\* artifact, so a stage operation that passes its stage check never fails
\* with a missing-artifact error when it reads the latest artifacts of
\* earlier stages.
C36_ArtifactsInWorkflowOrder ==
    \A c \in DOMAIN cases :
        /\ \A T \in StagesReached(cases[c]) : HasArtifact(cases[c], T)
        /\ \A op \in StageOps :
               _ensure_stage(cases[c], AllowedStages(op)) =>
                   \A T \in ArtifactsRead(op) : HasArtifact(cases[c], T)

\* a review has read the draft of a case that went through every stage
C36_ReviewedAfterEveryStage ==
    \E c \in Registered :
        /\ last.op = "run_review" /\ last.case_id = c /\ last.result = "ok"
        /\ cases[c].stage = "REVIEWED"
        /\ StagesReached(cases[c])
               = WorkflowStage \ {"INIT", "APPROVED"}
        /\ cases[c].artifacts["APPROVED"] = << >>


(***************************************************************************)
(* RERANKED is never the stage of a case                                   *)
(***************************************************************************)
\* C37: case.stage never holds the value RERANKED in any reachable state:
\* run_assemble appends the RERANKED and the ASSEMBLED artifact together
\* and moves the stage from RETRIEVED (or ASSEMBLED) directly to ASSEMBLED,
\* so the RERANKED and ASSEMBLED artifact lists always have the same
\* length.
C37_StageNeverReranked ==
    /\ \A c \in DOMAIN cases :
           /\ cases[c].stage # "RERANKED"
           /\ Len(cases[c].artifacts["RERANKED"])
                  = Len(cases[c].artifacts["ASSEMBLED"])
    /\ (last.op = "run_assemble" /\ last.result = "ok") =>
           /\ last.stage_before \in {"RETRIEVED", "ASSEMBLED"}
           /\ last.writes = <<"ASSEMBLED">>
           /\ cases[last.case_id].stage = "ASSEMBLED"

\* run_assemble ran a second time, on a case already at ASSEMBLED
C37_AssembledTwice ==
    \E c \in Registered :
        /\ last.op = "run_assemble" /\ last.case_id = c /\ last.result = "ok"
        /\ last.stage_before = "ASSEMBLED"
        /\ Len(cases[c].artifacts["RERANKED"]) = 2
        /\ Len(cases[c].artifacts["ASSEMBLED"]) = 2


(***************************************************************************)
(* Section coverage of run_retrieve (specification SpecCoverage): plans    *)
(* whose sections differ in their fallback policy, retrieved with and      *)
(* without allow_partial                                                   *)
(***************************************************************************)
\* a clause section whose plan gives an empty relaxation_order
RawTerms ==
    [ name |-> "Terms", intent |-> "legal terms",
      fallback_policy |-> [min_clauses |-> 1, relaxation_order |-> << >>,
                           max_retries |-> 1] ]

CoveragePlans ==
    { [sections |-> <<RawScope, RawArchitecture>>],
      [sections |-> <<RawScope, RawTerms>>],
      [sections |-> <<RawTerms>>] }

NextCoverage ==
    \/ \E case_id \in CaseIds :
           create_case(case_id, ValidIntake, LlmObject(ObjFull))
    \/ \E case_id \in CaseIds :
           \E plan_input \in CoveragePlans :
               /\ FirstRun(case_id, "PLAN_READY")
               /\ run_plan(case_id, plan_input, LlmRaise)
    \/ \E case_id \in CaseIds :
           \E retrieve_input \in DraftRetrieveInputs,
              answers \in RetrievalAnswersRead(case_id) :
               run_retrieve(case_id, retrieve_input, answers)

SpecCoverage == Init /\ [][NextCoverage]_vars

\* the sections run_retrieve visits: those of the plan that are selected
VisitedSections(sow_case, retrieve_input) ==
    LET section_defs == SectionDefs(LatestPayload(sow_case, "PLAN_READY").plan.sections)
    IN  IF retrieve_input.section_names # {}
        THEN DOMAIN section_defs \cap retrieve_input.section_names
        ELSE DOMAIN section_defs

\* the visited sections whose retrieval returned, with no candidate
ZeroCandidateSections(sow_case, retrieve_input, answers) ==
    LET section_defs == SectionDefs(LatestPayload(sow_case, "PLAN_READY").plan.sections)
        found(name) ==
            _retrieve_with_fallback(section_defs[name],
                                    sow_case.structured_context, 8,
                                    answers[name])
    IN  { name \in VisitedSections(sow_case, retrieve_input) :
            found(name).error = "none" /\ found(name).clauses = << >> }

\* every section of every RETRIEVED artifact has a candidate
RetrievedSectionsCovered(sow_case) ==
    \A v \in 1..Len(sow_case.artifacts["RETRIEVED"]) :
        LET retrieval_set ==
                sow_case.artifacts["RETRIEVED"][v].payload.retrieval_set
        IN  \A name \in DOMAIN retrieval_set : retrieval_set[name] # << >>

C38_Step ==
    /\ \A c \in DOMAIN cases' : RetrievedSectionsCovered(cases'[c])
    /\ \A c \in DOMAIN cases :
           Passes(c, {"PLAN_READY", "RETRIEVED"}) =>
               \A retrieve_input \in DraftRetrieveInputs,
                  answers \in RetrievalAnswersRead(c) :
                   run_retrieve(c, retrieve_input, answers) =>
                       LET zero == ZeroCandidateSections(cases[c],
                                       retrieve_input, answers)
                       IN  /\ (~retrieve_input.allow_partial /\ zero # {}) =>
                                  /\ last'.result = "ValidationError"
                                  /\ cases' = cases
                           /\ (retrieve_input.allow_partial /\ zero # {}) =>
                                  /\ last'.result = "ok"
                                  /\ cases'[c].stage = "RETRIEVED"
                                  /\ DOMAIN LatestPayload(cases'[c],
                                                "RETRIEVED").retrieval_set
                                         = VisitedSections(cases[c],
                                               retrieve_input) \ zero

\* C38: every section recorded in the retrieval_set of any RETRIEVED
\* artifact has at least one candidate: without allow_partial, run_retrieve
\* raises ValidationError (appending nothing) if any selected section ended
\* with zero candidates; with allow_partial, zero-candidate sections are
\* dropped from retrieval_set and the stage still advances to RETRIEVED.
C38_RetrievedSectionsHaveCandidates == [][C38_Step]_vars


(***************************************************************************)
(* Upstream artifacts once the case has moved on                           *)
(***************************************************************************)
\* the step appended to the list of T, a stage the case had advanced past
AppendedUpstream(c, T) ==
    /\ StageRank(T) < StageRank(cases[c].stage)
    /\ Len(cases'[c].artifacts[T]) > Len(cases[c].artifacts[T])

\* the blueprint run_assemble computes from the latest RETRIEVED and the
\* latest PLAN_READY artifact
BlueprintOfLatest(sow_case) ==
    LET retrieval_set == LatestPayload(sow_case, "RETRIEVED").retrieval_set
        section_defs ==
            SectionDefs(LatestPayload(sow_case, "PLAN_READY").plan.sections)
    IN  [name \in DOMAIN retrieval_set |->
            BlueprintEntry(name, retrieval_set[name], section_defs)]

\* whenever the stage is ASSEMBLED or later, the latest blueprint is the
\* one of the latest RETRIEVED and PLAN_READY artifacts
BlueprintUpToDate(registry) ==
    \A c \in DOMAIN registry :
        StageRank(registry[c].stage) >= StageRank("ASSEMBLED") =>
            LatestPayload(registry[c], "ASSEMBLED").assembly_blueprint
                = BlueprintOfLatest(registry[c])

C39_OriginalStep ==
    /\ \A c \in DOMAIN cases :
           \A T \in WorkflowStage :
               AppendedUpstream(c, T) =>
                   /\ last'.op = "run_write"
                   /\ last'.stage_before = "VALIDATED"
                   /\ T = "DRAFTED"

\* C39: upstream artifacts are frozen once the case moves on: after
\* case.stage has advanced past stage T, no operation appends to T's
\* artifact list (the only exception being run_write at stage VALIDATED,
\* which appends to DRAFTED); hence whenever the stage is ASSEMBLED or
\* later, the latest ASSEMBLED blueprint was computed from the latest
\* RETRIEVED artifact and the latest PLAN_READY artifact.
C39_UpstreamFrozen ==
    [][C39_OriginalStep]_vars /\ []BlueprintUpToDate(cases)


\* C39 as amended: the exceptions are run_write at stage VALIDATED, which
\* appends to DRAFTED, and run_assemble at stage ASSEMBLED, which appends
\* to RERANKED.
C39_AmendedStep ==
    /\ \A c \in DOMAIN cases :
           \A T \in WorkflowStage :
               AppendedUpstream(c, T) =>
                   \/ /\ last'.op = "run_write"
                      /\ last'.stage_before = "VALIDATED"
                      /\ T = "DRAFTED"
                   \/ /\ last'.op = "run_assemble"
                      /\ last'.stage_before = "ASSEMBLED"
                      /\ T = "RERANKED"

C39_UpstreamFrozenButReranked ==
    [][C39_AmendedStep]_vars /\ []BlueprintUpToDate(cases)

\* run_assemble ran again at ASSEMBLED and appended a second RERANKED
\* artifact; the plan and the retrieval were run once
C39_RerankedAppendedAtAssembled ==
    \E c \in Registered :
        /\ last.op = "run_assemble" /\ last.case_id = c /\ last.result = "ok"
        /\ last.stage_before = "ASSEMBLED"
        /\ Len(cases[c].artifacts["RERANKED"]) = 2
        /\ Len(cases[c].artifacts["RETRIEVED"]) = 1
        /\ DOMAIN LatestPayload(cases[c], "ASSEMBLED").assembly_blueprint # {}


(***************************************************************************)
(* What run_write persists of the candidates (specification SpecDraft)     *)
(***************************************************************************)
\* the source mapping of a drafted section as the blueprint gives it: the
\* ids of its first two candidates, none for a section without an entry
BlueprintSources(blueprint, name) ==
    <<[ paragraph  |-> 1,
        clause_ids |-> IF name \in DOMAIN blueprint
                       THEN blueprint[name].primary_clause_ids
                       ELSE << >> ]>>

\* the i-th drafted section was accepted after a failed attempt, that is
\* written from the candidates re-retrieved after that attempt
AcceptedOnRetry(sow_case, i) ==
    LET attempts == DraftedAttempts(sow_case, i)
    IN  /\ DraftedSections(sow_case)[i].category # "template"
        /\ Len(attempts) >= 2
        /\ attempts[Len(attempts)].pass

C40_Step ==
    \A c \in DOMAIN cases :
        (last'.op = "run_write" /\ last'.case_id = c) =>
            /\ \A T \in {"RETRIEVED", "RERANKED", "ASSEMBLED"} :
                   cases'[c].artifacts[T] = cases[c].artifacts[T]
            /\ last'.result = "ok" =>
                   \A i \in 1..Len(DraftedSections(cases'[c])) :
                       DraftedSections(cases'[c])[i].source_mapping
                           = BlueprintSources(
                                 AssemblyBlueprint(cases[c]),
                                 DraftedSections(cases'[c])[i].name)

====
